---- MODULE Spec2Model ----
(***************************************************************************)
(* Model of the multi-step pipeline extraction engine                      *)
(* (backend/app/services/approach_pipeline.py and excel_parser.py).        *)
(*                                                                         *)
(* Strings are modelled as tuples of one-character strings, so that their  *)
(* length, concatenation, normalisation and parsing are computed the way   *)
(* the Python code computes them.  The characters used are ASCII letters,  *)
(* digits, the space and a few punctuation marks.  The sheets given to the *)
(* chunker and to the batch loop hold no character that JSON or a markdown *)
(* table escapes (no quote, backslash, pipe or newline); the cells of the  *)
(* deterministic parser alone hold a pipe or a newline.                    *)
(*                                                                         *)
(* The specifications share the variables:                                 *)
(*   SpecChunk   _chunk_sheets_for_structure_analysis on a list of sheets  *)
(*   SpecNorm    _normalize_to_objects on a parsed <questions> block       *)
(*   SpecBatch   _extract_with_context on a workbook of one sheet          *)
(*   SpecStruct  _analyze_structure on the chunks of a file, wait by wait  *)
(*   SpecPipe    extract, from one wait for the LLM to the next            *)
(*   SpecDisk    extract on a disk that may fill up                        *)
(*   SpecRuns    extract called twice on one service instance              *)
(*   SpecExtract the batch loop of _extract_questions, call by call        *)
(*   SpecParser  extract_rows_by_columns and count_rows_in_columns         *)
(***************************************************************************)
EXTENDS Integers, Sequences, FiniteSets, TLC

VARIABLES
    pc,          \* position of the modelled call: "start", "done", or
                 \* "awaiting" at the wait for an LLM call to return
    metadata,    \* list[SheetMetadata] given to the chunker
    max_chars,   \* the chunker's max_chars argument
    chunks,      \* the chunker's return value
    xml_q,       \* the q elements of the <questions> block, in document order
    uuid_issued, \* number of uuid4 values drawn so far in this process
    questions,   \* the list _normalize_to_objects returns
    workbook,    \* the sheet of the file read by openpyxl, or the rows of a .csv file
    structure,   \* the structure analysis: [sheets |-> list of sheet_info]
    batches,     \* the list _extract_with_context returns
    run_id,          \* extract()'s run_id argument
    file_state,      \* the file: "ok", "no_sheets", "unreadable", or "csv"
    stage,           \* the stage extract() is in, "Idle" before the call
    visited,         \* the stages entered so far, in order
    total_llm_calls, \* self.total_llm_calls
    llm_log,         \* the calls of _invoke_llm so far, with what each returned
    artifacts,       \* the files written under the run directory
    intermediate_dir,\* <<>> or <<the name of the run directory>>
    coverage,        \* <<>> or <<the coverage record>>
    xml_output,      \* the combined extraction output handed to normalisation
    result,          \* <<>> while running, <<the ExtractionResult>> once returned
    disk,            \* <<>>, or <<the number of writes the disk still has room for>>
    run_no,          \* the number of the extract() call on this service instance
    all_xml_parts,   \* _extract_questions: the batch results accumulated so far
    batch_num,       \* _extract_questions: the number of the batch being processed
    chunk_num,       \* _analyze_structure: the number of the chunk being processed
    all_sheets,      \* _analyze_structure: the sheet records merged so far
    total_confidence,\* _analyze_structure: the sum of the chunk confidences so far
    column_mappings, \* the list[ColumnMapping] given to the deterministic parser
    total_count      \* what count_rows_in_columns returned

\* The state of one extract() call of the pipeline service.
pipe_vars == <<run_id, file_state, stage, visited, total_llm_calls, llm_log,
               intermediate_dir, artifacts, coverage, xml_output, result>>

\* The argument and the count of the deterministic parser (ExcelParser).
parser_vars == <<column_mappings, total_count>>

\* The disk, the use of the service instance, the locals of the batch loop
\* of _extract_questions, and the parser's.
\* The locals of the chunk loop of _analyze_structure.
chunk_vars == <<chunk_num, all_sheets, total_confidence>>

call_vars == <<disk, run_no, all_xml_parts, batch_num, parser_vars, chunk_vars>>

vars == <<pc, metadata, max_chars, chunks, xml_q, uuid_issued, questions,
          workbook, structure, batches, pipe_vars, call_vars>>

\* Python's None, for optional attributes and cell values.
None == <<"<None>">>

\* No extract() call is in progress: the service as __init__ leaves it.
PipeIdle ==
    /\ run_id = None /\ file_state = "ok" /\ stage = "Idle" /\ visited = <<>>
    /\ total_llm_calls = 0 /\ llm_log = <<>> /\ intermediate_dir = <<>>
    /\ artifacts = {}
    /\ coverage = <<>> /\ xml_output = <<>> /\ result = <<>>
    /\ disk = <<>> /\ run_no = 1 /\ all_xml_parts = <<>> /\ batch_num = 0
    /\ column_mappings = <<>> /\ total_count = 0
    /\ chunk_num = 0 /\ all_sheets = <<>> /\ total_confidence = [num |-> 0, den |-> 1]

-----------------------------------------------------------------------------
(* Generic helpers on sequences and integers                               *)

Min(a, b) == IF a < b THEN a ELSE b
Max(a, b) == IF a > b THEN a ELSE b

\* s[:n] of Python
Take(s, n) == SubSeq(s, 1, Min(Len(s), n))

RECURSIVE SumSeq(_)
SumSeq(s) == IF s = <<>> THEN 0 ELSE Head(s) + SumSeq(Tail(s))

RECURSIVE Flatten(_)
Flatten(ss) == IF ss = <<>> THEN <<>> ELSE Head(ss) \o Flatten(Tail(ss))

\* a string of n copies of the character c
Rep(c, n) == [i \in 1..n |-> c]

\* len(str(n)) for n >= 0
RECURSIVE Digits(_)
Digits(n) == IF n < 10 THEN 1 ELSE 1 + Digits(n \div 10)

-----------------------------------------------------------------------------
(* SheetChunker: _estimate_sheet_chars and                                 *)
(* _chunk_sheets_for_structure_analysis                                    *)

MAX_SAMPLE_COLS == 10
MAX_SAMPLE_ROWS == 30
PROMPT_OVERHEAD == 1500

\* len(', '.join(names))
JoinLen(names) ==
    IF names = <<>> THEN 0
    ELSE SumSeq([i \in 1..Len(names) |-> Len(names[i])]) + 2 * (Len(names) - 1)

\* A row dict of sample_data is the sequence of its items [key, value] in
\* insertion order.  RowDict is the dict after "row_data[columns[i]] =
\* values[i]" for i in order: a key written twice keeps its first place and
\* its last value.
RowDict(columns, values) ==
    LET n == Min(Len(columns), Len(values))
        IsFirst(i) == \A j \in 1..(i - 1) : columns[j] # columns[i]
        LastOf(i) == CHOOSE j \in i..n :
                         /\ columns[j] = columns[i]
                         /\ \A k \in (j + 1)..n : columns[k] # columns[i]
        firsts == SelectSeq([i \in 1..n |-> i], IsFirst)
    IN  [k \in 1..Len(firsts) |->
            [key |-> columns[firsts[k]], value |-> values[LastOf(firsts[k])]]]

\* len(json.dumps(limited_row, default=str)): limited_row holds the first
\* MAX_SAMPLE_COLS items of the row dict; a value is None (null) or a string.
JsonDumpsLen(row) ==
    LET n == Min(Len(row), MAX_SAMPLE_COLS)
        item(i) == (Len(row[i].key) + 2) + 2
                   + (IF row[i].value = None THEN 4 ELSE Len(row[i].value) + 2)
    IN  IF n = 0 THEN 2
        ELSE 2 + SumSeq([i \in 1..n |-> item(i)]) + 2 * (n - 1)

EstimateSheetChars(sheet) ==
    LET rows == Take(sheet.sample_data, MAX_SAMPLE_ROWS)
        line(idx) == 6 + Digits(idx + 2) + 2
                     + JsonDumpsLen(rows[idx + 1]) + 1
    IN  (8 + Len(sheet.name) + 1)
        + (9 + JoinLen(Take(sheet.columns, MAX_SAMPLE_COLS)) + 1)
        + (11 + Digits(sheet.row_count) + 1)
        + 13
        + SumSeq([k \in 1..Len(rows) |-> line(k - 1)])

\* available_chars = max_chars - prompt_overhead
AvailableCharsNoOverhead(mc) == mc
AvailableChars(mc) == mc - PROMPT_OVERHEAD

\* the test "current_chunk_size + sheet_size > available_chars"
ExceedsLimitSheetOnly(current_chunk_size, sheet_size, available_chars) ==
    sheet_size > available_chars
ExceedsLimit(current_chunk_size, sheet_size, available_chars) ==
    current_chunk_size + sheet_size > available_chars

\* "if current_chunk: chunks.append(current_chunk)" inside the loop
CloseChunkPrepend(chs, current_chunk) ==
    IF current_chunk # <<>> THEN <<current_chunk>> \o chs ELSE chs
CloseChunk(chs, current_chunk) ==
    IF current_chunk # <<>> THEN Append(chs, current_chunk) ELSE chs

\* "if current_chunk: chunks.append(current_chunk)" after the loop
FlushLastForgotten(chs, current_chunk) == chs
FlushLast(chs, current_chunk) ==
    IF current_chunk # <<>> THEN Append(chs, current_chunk) ELSE chs

RECURSIVE ChunkLoop(_, _, _, _, _, _)
ChunkLoop(md, i, available_chars, chs, current_chunk, current_chunk_size) ==
    IF i > Len(md) THEN FlushLast(chs, current_chunk)
    ELSE LET sheet == md[i]
             sheet_size == EstimateSheetChars(sheet)
         IN  IF ExceedsLimit(current_chunk_size, sheet_size, available_chars)
             THEN ChunkLoop(md, i + 1, available_chars,
                            CloseChunk(chs, current_chunk), <<sheet>>, sheet_size)
             ELSE ChunkLoop(md, i + 1, available_chars, chs,
                            Append(current_chunk, sheet),
                            current_chunk_size + sheet_size)

ChunkSheetsForStructureAnalysis(md, mc) ==
    IF md = <<>> THEN <<>>
    ELSE ChunkLoop(md, 1, AvailableChars(mc), <<>>, <<>>, 0)

(* Inputs of the chunker *)

MaxSheets == 3

SheetSmall ==
    [name |-> <<"S","1">>, columns |-> <<>>, row_count |-> 0, sample_data |-> <<>>]
SheetMedium ==
    [name |-> <<"D","a","t","a">>,
     columns |-> << <<"Q">>, <<"A","n","s","w","e","r">> >>,
     row_count |-> 12,
     sample_data |-> << RowDict(<< <<"Q">>, <<"A","n","s","w","e","r">> >>,
                                << <<"W","h","o">>, None >>) >>]
SheetWide ==
    [name |-> <<"W">>,
     columns |-> [i \in 1..11 |->
                     <<"c", "o", "l", <<"a","b","c","d","e","f","g","h","i","j","k">>[i]>>],
     row_count |-> 100,
     sample_data |-> << RowDict([i \in 1..11 |->
                     <<"c", "o", "l", <<"a","b","c","d","e","f","g","h","i","j","k">>[i]>>],
                                [i \in 1..11 |-> None]) >>]
SheetLong ==
    [name |-> <<"L">>,
     columns |-> << <<"Q">>, <<"A">> >>,
     row_count |-> 31,
     sample_data |-> [i \in 1..31 |->
         RowDict(<< <<"Q">>, <<"A">> >>, << Rep("x", 20), Rep("y", 20) >>)]]

SheetLong2 ==
    [name |-> <<"L","2">>,
     columns |-> << <<"Q">>, <<"A">> >>,
     row_count |-> 30,
     sample_data |-> [i \in 1..30 |->
         RowDict(<< <<"Q">>, <<"A">> >>, << Rep("x", 20), Rep("y", 18) >>)]]

SheetPool == {SheetSmall, SheetMedium, SheetWide, SheetLong, SheetLong2}

\* Sheet names of a workbook are distinct: the lists are injective.  The
\* column names of each pool sheet are distinct too (they key the row dicts).
SheetLists ==
    UNION {{s \in [1..n -> SheetPool] :
               \A i, j \in 1..n : i # j => s[i].name # s[j].name} : n \in 0..MaxSheets}

BudgetSet == {100, 1546, 1600, 1650, 1700, 2000, 4000, 4200}

ChunkIdle ==
    /\ xml_q = <<>> /\ uuid_issued = 0 /\ questions = <<>>
    /\ workbook = None /\ structure = None /\ batches = <<>>
    /\ PipeIdle

InitChunk ==
    /\ pc = "start"
    /\ metadata \in SheetLists
    /\ max_chars \in BudgetSet
    /\ chunks = <<>>
    /\ ChunkIdle

Chunk ==
    /\ pc = "start"
    /\ chunks' = ChunkSheetsForStructureAnalysis(metadata, max_chars)
    /\ pc' = "done"
    /\ UNCHANGED <<metadata, max_chars, xml_q, uuid_issued, questions,
                   workbook, structure, batches, pipe_vars, call_vars>>

NextChunk == Chunk

SpecChunk == InitChunk /\ [][NextChunk]_vars

(* Properties of the chunker *)

ChunkPositions == {kp \in (1..Len(chunks)) \X (1..MaxSheets + 1) : kp[2] <= Len(chunks[kp[1]])}

SumEst(chunk) == SumSeq([p \in 1..Len(chunk) |-> EstimateSheetChars(chunk[p])])

\* C4: chunking never splits a sheet: every input sheet appears, whole, in
\* exactly one chunk, every sheet of a chunk is an input sheet, no chunk is
\* empty, and an empty input gives an empty chunk list.
C4_ChunkingNeverSplitsASheet ==
    pc = "done" =>
        /\ \A i \in 1..Len(metadata) :
              Cardinality({kp \in ChunkPositions : chunks[kp[1]][kp[2]] = metadata[i]}) = 1
        /\ \A kp \in ChunkPositions :
              \E i \in 1..Len(metadata) : chunks[kp[1]][kp[2]] = metadata[i]
        /\ \A k \in 1..Len(chunks) : chunks[k] # <<>>
        /\ (metadata = <<>> => chunks = <<>>)

C4_Witness ==
    /\ pc = "done"
    /\ Len(metadata) = 3
    /\ Len(chunks) = 2
    /\ \E k \in 1..Len(chunks) : Len(chunks[k]) = 2

\* C5: chunk ordering is stable: the concatenation of the chunks, in chunk
\* order, is the input sheet list.
C5_ChunkOrderingIsStable ==
    pc = "done" => Flatten(chunks) = metadata

C5_Witness ==
    /\ pc = "done"
    /\ Len(metadata) = 3
    /\ Len(chunks) = 3
    /\ Flatten(chunks) = metadata

\* Greedy filling against a limit: every chunk of several sheets fits the
\* limit, a chunk is closed only when the next sheet would not fit, and the
\* sheets are walked in order.
GreedyAgainst(limit) ==
    /\ Flatten(chunks) = metadata
    /\ \A k \in 1..Len(chunks) :
          /\ chunks[k] # <<>>
          /\ (Len(chunks[k]) > 1 => SumEst(chunks[k]) <= limit)
          /\ (k < Len(chunks) =>
                SumEst(chunks[k]) + EstimateSheetChars(chunks[k + 1][1]) > limit)

\* C6 as stated: chunks are filled greedily against the character budget
\* given to the chunker (max_chars).
C6_GreedyAgainstGivenBudget ==
    pc = "done" => GreedyAgainst(max_chars)

\* C6 amended: chunks are filled greedily against the budget given to the
\* chunker less the 1500 characters reserved for the prompt template.
C6_GreedyAgainstBudgetLessOverhead ==
    pc = "done" => GreedyAgainst(max_chars - 1500)

C6_Witness ==
    /\ pc = "done"
    /\ \E k \in 1..Len(chunks) - 1 :
          LET total == SumEst(chunks[k]) + EstimateSheetChars(chunks[k + 1][1])
          IN  total <= max_chars /\ total > max_chars - 1500

\* C7: chunk budget invariant: a chunk of more than one sheet has a combined
\* estimate within the budget, and a sheet whose own estimate exceeds the
\* budget is alone in its chunk; the call always returns a chunk list.
C7_ChunkBudgetInvariant ==
    pc = "done" =>
        /\ \A k \in 1..Len(chunks) :
              Len(chunks[k]) > 1 => SumEst(chunks[k]) <= max_chars
        /\ \A i \in 1..Len(metadata) :
              EstimateSheetChars(metadata[i]) > max_chars =>
                  \E k \in 1..Len(chunks) : chunks[k] = <<metadata[i]>>

C7_Witness ==
    /\ pc = "done"
    /\ \E k \in 1..Len(chunks) : Len(chunks[k]) > 1
    /\ \E k \in 1..Len(chunks) :
          Len(chunks[k]) = 1 /\ EstimateSheetChars(chunks[k][1]) > max_chars

-----------------------------------------------------------------------------
(* IdentityResolver: _normalize_to_objects                                 *)

DigitChars == <<"0", "1", "2", "3", "4", "5", "6", "7", "8", "9">>

IsDigit(c) == \E d \in 1..10 : DigitChars[d] = c
DigitVal(c) == (CHOOSE d \in 1..10 : DigitChars[d] = c) - 1

\* str(n) for n >= 0
RECURSIVE IntToStr(_)
IntToStr(n) ==
    IF n < 10 THEN <<DigitChars[n + 1]>>
    ELSE IntToStr(n \div 10) \o <<DigitChars[(n % 10) + 1]>>

\* int(s) succeeds on a non-empty string of decimal digits (the characters of
\* the model hold no sign, underscore or surrounding white space)
IsIntLiteral(s) == s # <<>> /\ \A i \in 1..Len(s) : IsDigit(s[i])

RECURSIVE ParseInt(_)
ParseInt(s) ==
    IF Len(s) = 1 THEN DigitVal(s[1])
    ELSE 10 * ParseInt(SubSeq(s, 1, Len(s) - 1)) + DigitVal(s[Len(s)])

\* An optional integer: <<>> is None, <<n>> is the integer n.
NoInt == <<>>

\* dependencies=None of an ExtractedQuestion; an attached list is never empty
NoDependencies == <<>>

\* str(uuid.uuid4()): the n-th value drawn; uuid4 values do not repeat, and no
\* attribute of the input holds one ("#" is not a character of the inputs).
Uuid4(n) == <<"#">> \o IntToStr(n)

\* question_id = str(uuid.uuid4()), drawn once per q element that has a text
QuestionIdHoisted(base, draws) == Uuid4(base + 1)
QuestionId(base, draws) == Uuid4(base + draws + 1)

\* q_tag.get("sheet", "")
QuestionSheet(q) == IF q.sheet = None THEN <<>> ELSE q.sheet

\* int(q_tag.get("row")) if q_tag.get("row") else None
RowRaises(q) == q.row # None /\ q.row # <<>> /\ ~IsIntLiteral(q.row)
RowIndex(q) == IF q.row = None \/ q.row = <<>> THEN NoInt ELSE <<ParseInt(q.row)>>

\* location_key = f"{question_sheet}:{row_index}"
LocationKey(question_sheet, row_index) ==
    question_sheet \o <<":">> \o IntToStr(row_index[1])

\* location_to_guid[location_key] = question_id
DictSet(d, key, value) ==
    [k \in (DOMAIN d) \cup {key} |-> IF k = key THEN value ELSE d[k]]

\* dep_tag.get("question_row") or dep_tag.get("question_id") or ""
Truthy(attr) == attr # None /\ attr # <<>>
RawDepId(dep_tag) ==
    IF Truthy(dep_tag.question_row) THEN dep_tag.question_row
    ELSE IF Truthy(dep_tag.question_id) THEN dep_tag.question_id
    ELSE <<>>

\* an absent condition_type or action attribute (their values are modelled as
\* whole strings)
NoAttr == "<absent>"

\* the raw_deps entry of one depends_on element
RawDep(dep_tag, question_sheet) ==
    [raw_id |-> RawDepId(dep_tag),
     sheet |-> question_sheet,
     condition_type |-> IF dep_tag.condition_type = NoAttr THEN "equals"
                        ELSE dep_tag.condition_type,
     action |-> IF dep_tag.action = NoAttr THEN "show" ELSE dep_tag.action]

\* raw_dependencies[len(questions)] = raw_deps: the key is the index the
\* question is about to take in the list, not the index idx of its q element
RawDependenciesKeyOfElement(idx, qs) == idx
RawDependenciesKey(idx, qs) == Len(qs)

\* First pass over the q elements from the i-th on.  st holds the locals:
\* questions, location_to_guid, raw_dependencies (question index, 0-based ->
\* raw deps), the number of uuid4 draws, and whether int() raised.
RECURSIVE FirstPass(_, _, _, _)
FirstPass(elems, i, base, st) ==
    IF i > Len(elems) THEN st
    ELSE LET q_tag == elems[i] IN
      IF ~q_tag.has_text THEN FirstPass(elems, i + 1, base, st)
      ELSE
        LET question_id == QuestionId(base, st.draws)
            question_sheet == QuestionSheet(q_tag)
        IN  IF RowRaises(q_tag)
            THEN [st EXCEPT !.draws = @ + 1, !.raised = TRUE]
            ELSE
              LET row_index == RowIndex(q_tag)
                  l2g == IF question_sheet # <<>> /\ row_index # NoInt
                         THEN DictSet(st.location_to_guid,
                                      LocationKey(question_sheet, row_index),
                                      question_id)
                         ELSE st.location_to_guid
                  raw_deps == IF ~q_tag.has_dependencies THEN <<>>
                              ELSE [k \in 1..Len(q_tag.dependencies) |->
                                       RawDep(q_tag.dependencies[k], question_sheet)]
                  rd == IF raw_deps # <<>>
                        THEN DictSet(st.raw_dependencies,
                                     RawDependenciesKey(i - 1, st.questions), raw_deps)
                        ELSE st.raw_dependencies
                  question == [question_id |-> question_id,
                               dependencies |-> NoDependencies,
                               row_index |-> row_index,
                               sheet_name |-> IF question_sheet # <<>>
                                              THEN question_sheet ELSE None]
              IN  FirstPass(elems, i + 1, base,
                            [st EXCEPT !.draws = @ + 1,
                                       !.questions = Append(@, question),
                                       !.location_to_guid = l2g,
                                       !.raw_dependencies = rd])

\* location_key of the second pass
LookupKeyRawOnly(sheet, raw_id) == raw_id
LookupKey(sheet, raw_id) ==
    IF sheet # <<>> /\ raw_id # <<>> THEN sheet \o <<":">> \o raw_id ELSE raw_id

\* location_to_guid.get(location_key, location_key)
ResolveId(location_to_guid, location_key) ==
    IF location_key \in DOMAIN location_to_guid
    THEN location_to_guid[location_key]
    ELSE location_key

\* The table the second pass reads for question q_idx: the completed table of
\* the first pass.  (A single-pass resolver would see only the entries of the
\* questions created before q_idx.)
TableSinglePass(location_to_guid, qs, q_idx) ==
    LET seen == {k \in DOMAIN location_to_guid :
                    \E i \in 1..Min(q_idx, Len(qs)) :
                        qs[i].question_id = location_to_guid[k]}
    IN  [k \in seen |-> location_to_guid[k]]
TableOfSecondPass(location_to_guid, qs, q_idx) == location_to_guid

\* QuestionDependency(...) validates its Literal fields
DependencyRaises(raw_dep) ==
    \/ raw_dep.condition_type \notin {"equals", "contains", "not_empty"}
    \/ raw_dep.action \notin {"show", "skip"}

QuestionDependency(resolved_id, raw_dep) ==
    [depends_on_question_id |-> resolved_id,
     condition_type |-> raw_dep.condition_type,
     dependency_action |-> raw_dep.action]

\* Second pass from question index q_idx (0-based) on, in the insertion order
\* of raw_dependencies (ascending question index); stops at the first
\* QuestionDependency that raises.
RECURSIVE SecondPass(_, _, _, _)
SecondPass(qs, q_idx, location_to_guid, raw_dependencies) ==
    IF q_idx >= Len(qs) THEN qs
    ELSE IF q_idx \notin DOMAIN raw_dependencies
    THEN SecondPass(qs, q_idx + 1, location_to_guid, raw_dependencies)
    ELSE
      LET raw_deps == raw_dependencies[q_idx]
          table == TableOfSecondPass(location_to_guid, qs, q_idx)
          dependencies ==
              [k \in 1..Len(raw_deps) |->
                  QuestionDependency(
                      ResolveId(table, LookupKey(raw_deps[k].sheet, raw_deps[k].raw_id)),
                      raw_deps[k])]
      IN  IF \E k \in 1..Len(raw_deps) : DependencyRaises(raw_deps[k])
          THEN qs
          ELSE SecondPass([qs EXCEPT ![q_idx + 1].dependencies = dependencies],
                          q_idx + 1, location_to_guid, raw_dependencies)

FirstPassResult(elems, base) ==
    FirstPass(elems, 1, base,
              [questions |-> <<>>, location_to_guid |-> <<>>,
               raw_dependencies |-> <<>>, draws |-> 0, raised |-> FALSE])

NormalizeToObjectsOrNothing(elems, base) ==
    LET st == FirstPassResult(elems, base)
    IN  IF st.raised \/ \E q_idx \in DOMAIN st.raw_dependencies :
                           \E k \in 1..Len(st.raw_dependencies[q_idx]) :
                               DependencyRaises(st.raw_dependencies[q_idx][k])
        THEN <<>>
        ELSE SecondPass(st.questions, 0, st.location_to_guid, st.raw_dependencies)

NormalizeToObjects(elems, base) ==
    LET st == FirstPassResult(elems, base)
    IN  IF st.raised THEN st.questions
        ELSE SecondPass(st.questions, 0, st.location_to_guid, st.raw_dependencies)

(* Inputs of the normaliser: the q elements of the combined <questions>     *)
(* block.  A q element: has_text (a <text> child exists), the sheet and    *)
(* row attributes (None when absent), and the depends_on elements of its   *)
(* <dependencies> child (has_dependencies: whether that child exists).     *)

MaxQuestions == 3

SheetS == <<"S">>
SheetT == <<"T">>
Row1 == <<"1">>
Row2 == <<"2">>
Row9 == <<"9">>
Row01 == <<"0", "1">>
RowX == <<"x">>

QTag(has_text, sheet, row, has_dependencies, dependencies) ==
    [has_text |-> has_text, sheet |-> sheet, row |-> row,
     has_dependencies |-> has_dependencies, dependencies |-> dependencies]

DependsOnRow(question_row) ==
    [question_row |-> question_row, question_id |-> None,
     condition_type |-> NoAttr, action |-> NoAttr]
DependsOnId(question_id) ==
    [question_row |-> None, question_id |-> question_id,
     condition_type |-> "contains", action |-> "skip"]
DependsOnBadAction(question_row) ==
    [question_row |-> question_row, question_id |-> None,
     condition_type |-> NoAttr, action |-> "hide"]

QTagPool ==
    { QTag(TRUE, SheetS, Row1, TRUE, <<>>),
      QTag(TRUE, SheetS, Row01, FALSE, <<>>),
      QTag(TRUE, SheetS, RowX, FALSE, <<>>),
      QTag(TRUE, SheetT, Row1, FALSE, <<>>),
      QTag(TRUE, None, Row1, FALSE, <<>>),
      QTag(FALSE, SheetS, Row1, FALSE, <<>>),
      QTag(TRUE, SheetS, Row2, TRUE, <<DependsOnRow(Row1)>>),
      QTag(TRUE, SheetS, Row2, TRUE, <<DependsOnRow(Row9), DependsOnRow(Row1)>>),
      QTag(TRUE, SheetS, Row2, TRUE, <<DependsOnBadAction(Row1)>>),
      QTag(TRUE, SheetT, None, TRUE, <<DependsOnRow(Row1)>>),
      QTag(TRUE, None, None, TRUE, <<DependsOnRow(Row9)>>),
      QTag(TRUE, SheetS, None, TRUE, <<DependsOnId(Row01)>>) }

QTagLists == UNION {[1..n -> QTagPool] : n \in 0..MaxQuestions}

NormIdle ==
    /\ metadata = <<>> /\ max_chars = 0 /\ chunks = <<>>
    /\ workbook = None /\ structure = None /\ batches = <<>>
    /\ PipeIdle

InitNorm ==
    /\ pc = "start"
    /\ xml_q \in QTagLists
    /\ uuid_issued = 0
    /\ questions = <<>>
    /\ NormIdle

Normalize ==
    /\ pc = "start"
    /\ questions' = NormalizeToObjects(xml_q, uuid_issued)
    /\ uuid_issued' = uuid_issued + FirstPassResult(xml_q, uuid_issued).draws
    /\ pc' = "done"
    /\ UNCHANGED <<metadata, max_chars, chunks, xml_q, workbook, structure, batches,
                   pipe_vars, call_vars>>

NextNorm == Normalize

SpecNorm == InitNorm /\ [][NextNorm]_vars

(* Properties of the normaliser *)

\* The q element the j-th returned question was created from: the j-th
\* element that has a text.
TextElements == SelectSeq(xml_q, LAMBDA q : q.has_text)

\* The pass-1 locator of the i-th returned question, or None if the table
\* holds none for it (no sheet attribute, or no row attribute).
PassOneLocator(i) ==
    IF questions[i].sheet_name # None /\ questions[i].row_index # NoInt
    THEN questions[i].sheet_name \o <<":">> \o IntToStr(questions[i].row_index[1])
    ELSE None

\* The raw locator of the k-th dependency declared by the j-th question.
RawLocator(j, k) ==
    LET d == TextElements[j].dependencies[k]
    IN  IF d.question_row \notin {None, <<>>} THEN d.question_row
        ELSE IF d.question_id \notin {None, <<>>} THEN d.question_id
        ELSE <<>>

\* The questions whose pass-1 locator the k-th dependency of question j
\* names: those on the dependent question's sheet at the row the raw locator
\* spells.
Matches(j, k) ==
    {i \in 1..Len(questions) :
        /\ questions[j].sheet_name # None
        /\ RawLocator(j, k) # <<>>
        /\ PassOneLocator(i) = questions[j].sheet_name \o <<":">> \o RawLocator(j, k)}

AttachedDeps ==
    {jk \in (1..Len(questions)) \X (1..2) :
        /\ questions[jk[1]].dependencies # NoDependencies
        /\ jk[2] <= Len(questions[jk[1]].dependencies)}

\* C1 as stated: a dependency whose raw locator matches exactly one
\* question's pass-1 locator targets that question's identifier, and one that
\* matches no question keeps the original raw locator string unchanged.
C1_DependencyResolutionSoundness ==
    pc = "done" =>
        \A jk \in AttachedDeps :
            LET target == questions[jk[1]].dependencies[jk[2]].depends_on_question_id
                m == Matches(jk[1], jk[2])
            IN  /\ (Cardinality(m) = 1 =>
                       \E i \in m : target = questions[i].question_id)
                /\ (m = {} => target = RawLocator(jk[1], jk[2]))

\* C2: the identifiers assigned to the returned questions are pairwise
\* distinct.
C2_IdentifierUniqueness ==
    \A i, j \in 1..Len(questions) :
        i # j => questions[i].question_id # questions[j].question_id

C2_Witness ==
    /\ pc = "done"
    /\ \E i, j \in 1..Len(questions) :
          /\ i # j
          /\ PassOneLocator(i) # None
          /\ PassOneLocator(i) = PassOneLocator(j)
    /\ Len(questions) = 3

\* C3: resolution does not depend on encounter order: a dependency naming the
\* pass-1 locator of exactly one question targets that question's
\* identifier, whether that question comes later (forward reference) or
\* earlier than the dependent question.
C3_ForwardReferencesResolved ==
    pc = "done" =>
        \A jk \in AttachedDeps : \A i \in 1..Len(questions) :
            (Matches(jk[1], jk[2]) = {i} /\ (i > jk[1] \/ i < jk[1] \/ i = jk[1])) =>
                questions[jk[1]].dependencies[jk[2]].depends_on_question_id
                    = questions[i].question_id

C3_Witness ==
    /\ pc = "done"
    /\ \E jk \in AttachedDeps : \E i \in 1..Len(questions) :
          /\ i > jk[1]
          /\ Matches(jk[1], jk[2]) = {i}
          /\ questions[jk[1]].dependencies[jk[2]].depends_on_question_id
                = questions[i].question_id

-----------------------------------------------------------------------------
(* ColumnResolver and RowBatcher: _extract_with_context and                *)
(* ExcelParser._generate_filtered_markdown_excel                           *)

MAX_ROWS_PER_BATCH == 100
MAX_BATCHES_PER_SHEET == 20

UpperChars == <<"A","B","C","D","E","F","G","H","I","J","K","L","M",
                "N","O","P","Q","R","S","T","U","V","W","X","Y","Z">>
LowerChars == <<"a","b","c","d","e","f","g","h","i","j","k","l","m",
                "n","o","p","q","r","s","t","u","v","w","x","y","z">>

\* str.lower()
LowerChar(c) ==
    IF \E i \in 1..26 : UpperChars[i] = c
    THEN LowerChars[CHOOSE i \in 1..26 : UpperChars[i] = c]
    ELSE c
StrLower(s) == [i \in 1..Len(s) |-> LowerChar(s[i])]

\* white space, as str.strip() and \s take it, among the characters used
IsSpace(c) == c \in {" ", "\t", "\n", "\r"}

\* str.strip()
RECURSIVE LStrip(_)
LStrip(s) == IF s # <<>> /\ IsSpace(Head(s)) THEN LStrip(Tail(s)) ELSE s
RECURSIVE RStrip(_)
RStrip(s) ==
    IF s # <<>> /\ IsSpace(s[Len(s)]) THEN RStrip(SubSeq(s, 1, Len(s) - 1)) ELSE s
Strip(s) == RStrip(LStrip(s))

\* the character class of _normalize_col_name; its last member, the backquote,
\* is left out: no input name holds one
SpecialChars ==
    {"&", "@", "#", "$", "%", "^", "*", "(", ")", "+", "=", "[", "]", "{", "}",
     "<", ">", "|", "\\", "/", ":", ";", "'", "\"", "~"}

\* re.sub(special, ' ', s)
ReplaceSpecial(s) == [i \in 1..Len(s) |-> IF s[i] \in SpecialChars THEN " " ELSE s[i]]

\* re.sub(r'\s+', ' ', s)
RECURSIVE CollapseWs(_)
CollapseWs(s) ==
    IF s = <<>> THEN <<>>
    ELSE IF IsSpace(Head(s))
         THEN <<" ">> \o CollapseWs(LStrip(s))
         ELSE <<Head(s)>> \o CollapseWs(Tail(s))

\* _normalize_col_name
NormalizeColName(name) == Strip(CollapseWs(ReplaceSpecial(Strip(StrLower(name)))))

\* f"Unnamed: {col_idx}"
UnnamedPrefix == <<"U", "n", "n", "a", "m", "e", "d", ":">>
UnnamedName(col_idx) == UnnamedPrefix \o <<" ">> \o IntToStr(col_idx)

\* re.match(r"^Unnamed:\s*(\d+)$", col_name): <<N>> if it matches, NoInt if not
UnnamedMatch(col_name) ==
    IF Len(col_name) > 8 /\ SubSeq(col_name, 1, 8) = UnnamedPrefix
    THEN LET rest == LStrip(SubSeq(col_name, 9, Len(col_name)))
         IN  IF IsIntLiteral(rest) THEN <<ParseInt(rest)>> ELSE NoInt
    ELSE NoInt

\* The header names of a row of cells: str(cell.value), or "Unnamed: idx" for
\* an empty cell (idx 0-based).
HeaderNames(cells) ==
    [i \in 1..Len(cells) |-> IF cells[i] = None THEN UnnamedName(i - 1) ELSE cells[i]]

\* list(ws[row]) for the two rows that can hold headers
RowCells(wb, row) == IF row = 1 THEN wb.row1 ELSE wb.row2

\* _get_excel_metadata: the columns of the sheet's SheetMetadata (first row)
MetadataColumns(wb) == HeaderNames(RowCells(wb, 1))

\* pandas_col_to_index.get(sheet_name, {}), kept as the column list: the dict
\* maps a name to the index of its last occurrence, and its keys are in the
\* order of their first occurrence.
SheetColMap(wb, sheet_name) ==
    IF sheet_name = wb.sheet_name THEN MetadataColumns(wb) ELSE <<>>

\* sheet_row_counts.get(sheet_name, 0)
TotalRows(wb, sheet_name) == IF sheet_name = wb.sheet_name THEN wb.max_row ELSE 0

SetMax(S) == CHOOSE x \in S : \A y \in S : y <= x
SetMin(S) == CHOOSE x \in S : \A y \in S : x <= y

\* "col_name in sheet_col_map" / sheet_col_map[col_name] (0-based index)
Occurrences(cols, name) == {i \in 1..Len(cols) : cols[i] = name}
ColMapGet(cols, name) ==
    IF Occurrences(cols, name) = {} THEN NoInt
    ELSE <<SetMax(Occurrences(cols, name)) - 1>>

\* normalized_col_map[norm_name]: the entry written last while iterating
\* sheet_col_map.items()
NormalizedColMapGet(cols, norm_name) ==
    LET keys == {i \in 1..Len(cols) :
                    /\ i = SetMin(Occurrences(cols, cols[i]))
                    /\ NormalizeColName(cols[i]) = norm_name}
    IN  IF keys = {} THEN NoInt ELSE ColMapGet(cols, cols[SetMax(keys)])

\* One turn of the loop "for col_name in columns_to_include": the index the
\* name resolves to in the metadata columns, NoInt if it is not found.
PreResolvedIndex(cols, col_name) ==
    IF ColMapGet(cols, col_name) # NoInt
    THEN ColMapGet(cols, col_name)
    ELSE NormalizedColMapGet(cols, NormalizeColName(col_name))

\* membership in a list
InSeq(x, s) == \E i \in 1..Len(s) : s[i] = x

\* columns_to_include
OtherColumnKeys == <<"type_column", "instruction_column",
                     "additional_answer_column", "followup_column">>

RECURSIVE AddOtherColumns(_, _, _)
AddOtherColumns(columns_info, k, acc) ==
    IF k > Len(OtherColumnKeys) THEN acc
    ELSE LET col_name == columns_info[OtherColumnKeys[k]]
         IN  IF Truthy(col_name) /\ ~InSeq(col_name, acc)
             THEN AddOtherColumns(columns_info, k + 1, Append(acc, col_name))
             ELSE AddOtherColumns(columns_info, k + 1, acc)

ColumnsToInclude(columns_info) ==
    AddOtherColumns(columns_info, 1,
        <<columns_info.question_column>>
        \o (IF Truthy(columns_info.answer_column)
            THEN <<columns_info.answer_column>> ELSE <<>>)
        \o (IF Truthy(columns_info.answer_options_column)
            THEN <<columns_info.answer_options_column>> ELSE <<>>))

\* col_indices_to_include
RECURSIVE ColIndicesToInclude(_, _, _, _)
ColIndicesToInclude(cols, columns_to_include, k, acc) ==
    IF k > Len(columns_to_include) THEN acc
    ELSE LET idx == PreResolvedIndex(cols, columns_to_include[k])
         IN  IF idx # NoInt /\ ~InSeq(idx[1], acc)
             THEN ColIndicesToInclude(cols, columns_to_include, k + 1, Append(acc, idx[1]))
             ELSE ColIndicesToInclude(cols, columns_to_include, k + 1, acc)

\* The markdown table of one batch: the header texts of its columns, the
\* 0-based indices of the columns, and the row numbers of its data lines.
\* The empty string "" is the table without a header.
NoMarkdown == [headers |-> <<>>, col_indices |-> <<>>, rows |-> {}]

\* "if column_indices:" - the pre-resolved indices in range, without repeats
RECURSIVE UsePreResolved(_, _, _, _)
UsePreResolved(column_indices, k, n_headers, acc) ==
    IF k > Len(column_indices) THEN acc
    ELSE IF column_indices[k] < n_headers /\ ~InSeq(column_indices[k], acc)
         THEN UsePreResolved(column_indices, k + 1, n_headers, Append(acc, column_indices[k]))
         ELSE UsePreResolved(column_indices, k + 1, n_headers, acc)

\* all_headers.index(col_name) (0-based)
HeaderIndex(all_headers, col_name) ==
    SetMin({i \in 1..Len(all_headers) : all_headers[i] = col_name}) - 1

\* the case-insensitive match of the last resort: the first header equal to
\* the name after lower().strip(), NoInt if there is none
CaseInsensitiveIndex(all_headers, col_name) ==
    LET hits == {i \in 1..Len(all_headers) :
                    Strip(StrLower(all_headers[i])) = Strip(StrLower(col_name))}
    IN  IF hits = {} THEN NoInt ELSE <<SetMin(hits) - 1>>

\* One turn of the name-based loop "for col_name in columns": the index the
\* name resolves to in the header row, NoInt if it is not found.
NameLookupPositionalFirst(all_headers, col_name) ==
    IF UnnamedMatch(col_name) # NoInt
    THEN IF UnnamedMatch(col_name)[1] < Len(all_headers)
         THEN UnnamedMatch(col_name) ELSE NoInt
    ELSE IF InSeq(col_name, all_headers)
    THEN <<HeaderIndex(all_headers, col_name)>>
    ELSE CaseInsensitiveIndex(all_headers, col_name)
NameLookup(all_headers, col_name) ==
    IF InSeq(col_name, all_headers)
    THEN <<HeaderIndex(all_headers, col_name)>>
    ELSE IF UnnamedMatch(col_name) # NoInt
    THEN IF UnnamedMatch(col_name)[1] < Len(all_headers)
         THEN UnnamedMatch(col_name) ELSE NoInt
    ELSE CaseInsensitiveIndex(all_headers, col_name)

\* "if not col_indices:" - the name-based fallback
RECURSIVE NameBasedIndices(_, _, _, _)
NameBasedIndices(all_headers, columns, k, acc) ==
    IF k > Len(columns) THEN acc
    ELSE NameBasedIndices(all_headers, columns, k + 1,
                          acc \o NameLookup(all_headers, columns[k]))

\* the column resolution of the generator
ResolveColIndices(all_headers, columns, column_indices) ==
    LET pre == UsePreResolved(column_indices, 1, Len(all_headers), <<>>)
    IN  IF pre # <<>> THEN pre
        ELSE NameBasedIndices(all_headers, columns, 1, <<>>)

\* "cell.value is not None and str(cell.value).strip()" for the cell of row
\* row_idx in column col_idx (0-based).  Rows 1 and 2 hold the cells given; a
\* later row is full unless the sheet lists it as sparse, with the set of its
\* columns that hold text.
CellHasText(wb, row_idx, col_idx) ==
    IF row_idx <= 2
    THEN /\ RowCells(wb, row_idx)[col_idx + 1] # None
         /\ Strip(RowCells(wb, row_idx)[col_idx + 1]) # <<>>
    ELSE IF row_idx \in DOMAIN wb.sparse THEN col_idx \in wb.sparse[row_idx] ELSE TRUE


\* has_content
HasContent(wb, row_idx, col_indices) ==
    \E k \in 1..Len(col_indices) :
        /\ col_indices[k] < Len(wb.row1)
        /\ CellHasText(wb, row_idx, col_indices[k])

\* "for row_idx in range(actual_start, actual_end + 1)": the rows rendered, for
\* the rows first..last of the range, entered with rows_added lines written.
\* A row is rendered if it has content; the loop stops once max_rows lines are
\* written.  The range is walked in two halves, the second entered with the
\* count the first leaves, which keeps the evaluation shallow.
DataRowsUncapped(wb, col_indices, first, last, max_rows, rows_added) ==
    {r \in first..last : HasContent(wb, r, col_indices)}

RECURSIVE DataRows(_, _, _, _, _, _)
DataRows(wb, col_indices, first, last, max_rows, rows_added) ==
    IF first > last \/ rows_added >= max_rows THEN {}
    ELSE IF first = last
    THEN IF HasContent(wb, first, col_indices) THEN {first} ELSE {}
    ELSE LET mid == (first + last) \div 2
             head == DataRows(wb, col_indices, first, mid, max_rows, rows_added)
         IN  head \cup DataRows(wb, col_indices, mid + 1, last, max_rows,
                                rows_added + Cardinality(head))

\* _generate_filtered_markdown_excel (end_row is None)
GenerateFilteredMarkdownExcel(wb, sheet_name, columns, start_row, max_rows, header_row, column_indices) ==
    IF sheet_name # wb.sheet_name THEN NoMarkdown
    ELSE LET all_headers == HeaderNames(RowCells(wb, header_row))
             col_indices == ResolveColIndices(all_headers, columns, column_indices)
         IN  IF col_indices = <<>> THEN NoMarkdown
             ELSE [headers |-> [k \in 1..Len(col_indices) |->
                                    all_headers[col_indices[k] + 1]],
                   col_indices |-> col_indices,
                   rows |-> DataRows(wb, col_indices, Max(start_row, header_row + 1),
                                     wb.max_row, max_rows, 0)]

\* actual_headers: the cells of the markdown header line, stripped, without
\* the empty ones and without the "Row" column (no header holds a "|")
RowLabel == <<"R", "o", "w">>
RECURSIVE ActualHeaders(_)
ActualHeaders(headers) ==
    IF headers = <<>> THEN <<>>
    ELSE LET h == Strip(Head(headers))
         IN  IF h # <<>> /\ h # RowLabel
             THEN <<h>> \o ActualHeaders(Tail(headers))
             ELSE ActualHeaders(Tail(headers))

\* resolved_columns_info
ResolvedColumnsInfo(columns_info, markdown) ==
    LET actual_headers == ActualHeaders(markdown.headers)
        has_options == Truthy(columns_info.answer_options_column)
        has_answer == Truthy(columns_info.answer_column)
    IN  [question_column |->
            IF Len(actual_headers) >= 1 THEN actual_headers[1]
            ELSE columns_info.question_column,
         answer_column |->
            IF Len(actual_headers) >= 3 /\ has_options /\ has_answer
            THEN actual_headers[3]
            ELSE IF Len(actual_headers) >= 2 /\ ~has_options
            THEN actual_headers[2]
            ELSE columns_info.answer_column,
         answer_options_column |->
            IF Len(actual_headers) >= 2 /\ has_options THEN actual_headers[2]
            ELSE columns_info.answer_options_column]

\* num_batches
NumBatches(total_rows, data_start) ==
    Max(1, ((total_rows - data_start + 1) + MAX_ROWS_PER_BATCH - 1)
               \div MAX_ROWS_PER_BATCH)

\* "while current_start <= total_rows": the batches of one sheet.
\* sheet_batch_num is the number of batches made before this turn.
RECURSIVE BatchLoop(_, _, _, _, _, _, _)
BatchLoop(wb, sheet_info, columns_to_include, col_indices_to_include, current_start, sheet_batch_num, acc) ==
    IF ~(current_start <= TotalRows(wb, sheet_info.sheet_name)) THEN acc
    ELSE LET markdown == GenerateFilteredMarkdownExcel(
                             wb, sheet_info.sheet_name, columns_to_include,
                             current_start, MAX_ROWS_PER_BATCH,
                             sheet_info.header_row, col_indices_to_include)
             batch == [sheet_name |-> sheet_info.sheet_name,
                       markdown |-> markdown,
                       header_row |-> sheet_info.header_row,
                       data_start_row |-> current_start,
                       columns |-> columns_to_include,
                       columns_info |-> sheet_info.columns,
                       resolved_columns_info |->
                           ResolvedColumnsInfo(sheet_info.columns, markdown),
                       batch_num |-> sheet_batch_num + 1,
                       total_batches |->
                           NumBatches(TotalRows(wb, sheet_info.sheet_name),
                                      sheet_info.data_start_row)]
         IN  IF markdown = NoMarkdown THEN acc
             ELSE IF sheet_batch_num + 1 >= MAX_BATCHES_PER_SHEET
             THEN Append(acc, batch)
             ELSE BatchLoop(wb, sheet_info, columns_to_include,
                            col_indices_to_include,
                            current_start + MAX_ROWS_PER_BATCH,
                            sheet_batch_num + 1, Append(acc, batch))

\* One turn of "for sheet_info in structure.get('sheets', [])"
SheetBatches(wb, sheet_info) ==
    IF ~Truthy(sheet_info.columns.question_column) THEN <<>>
    ELSE LET columns_to_include == ColumnsToInclude(sheet_info.columns)
         IN  BatchLoop(wb, sheet_info, columns_to_include,
                       ColIndicesToInclude(SheetColMap(wb, sheet_info.sheet_name),
                                           columns_to_include, 1, <<>>),
                       sheet_info.data_start_row, 0, <<>>)

\* _extract_with_context
RECURSIVE ExtractWithContext(_, _)
ExtractWithContext(wb, sheets) ==
    IF sheets = <<>> THEN <<>>
    ELSE SheetBatches(wb, Head(sheets)) \o ExtractWithContext(wb, Tail(sheets))

-----------------------------------------------------------------------------
(* Inputs of the column resolver and the row batcher: one worksheet and    *)
(* the sheets of a structure analysis                                      *)

NameQ == <<"Q">>
NameLowerQ == <<"q">>
NameA == <<"A">>
NameO == <<"O">>
NameT == <<"T">>
NameZ == <<"Z">>
NameQAndA == <<"Q", " ", "&", " ", "A">>
NameQA == <<"Q", " ", "A">>
NameUnnamed1 == UnnamedName(1)
NameUnnamed7 == UnnamedName(7)
NameUnnamed1NoColon == <<"U", "n", "n", "a", "m", "e", "d", " ", "1">>
NameLowerUnnamed7 == StrLower(UnnamedName(7))

\* rows of three cells that can serve as header rows
HeaderQAO == <<NameQ, NameA, NameO>>
HeaderEmpty == <<None, None, None>>
HeaderTitle == <<NameT, None, None>>
HeaderFuzzy == <<NameQAndA, NameA, NameO>>
HeaderNoColon == <<NameUnnamed1NoColon, NameA, NameO>>
HeaderLiteral == <<NameUnnamed1, NameA, NameO>>
HeaderDup == <<NameQ, NameQ, NameA>>
HeaderCase == <<NameQ, NameLowerQ, NameA>>
HeaderLower7 == <<NameLowerUnnamed7, NameA, NameO>>
DataCells == <<<<"x">>, <<"y">>, <<"z">>>>

HeaderPool == {HeaderQAO, HeaderEmpty, HeaderTitle, HeaderFuzzy, HeaderNoColon,
               HeaderLiteral, HeaderDup, HeaderCase, HeaderLower7}
SecondRowPool == {DataCells, HeaderQAO, HeaderNoColon, HeaderLiteral, HeaderLower7}

SheetNameS == <<"S">>
SheetNameM == <<"M">>

\* no sparse row
NoSparse == [r \in {} |-> {}]
\* row 3 empty
SparseRow3 == [r \in {3} |-> {}]
\* rows 3 and 4 empty
SparseRows34 == [r \in {3, 4} |-> {}]
\* row 5 with text in column 1 only
SparseRow5 == [r \in {5} |-> {1}]
\* row 4 empty, row 5 with text in column 1 only
SparseGap45 == [r \in {4, 5} |-> IF r = 4 THEN {} ELSE {1}]
\* row 102 with text in column 1 only
SparseRow102 == [r \in {102} |-> {1}]
SparsePool == {NoSparse, SparseRow3, SparseRows34, SparseRow5, SparseGap45,
               SparseRow102}

MaxRowPool == {2, 3, 4, 102, 103, 201, 203, 2105}

Worksheet(row1, row2, max_row, sparse) ==
    [sheet_name |-> SheetNameS, row1 |-> row1, row2 |-> row2,
     max_row |-> max_row, sparse |-> sparse]

ColumnsInfo(question_column, answer_column, answer_options_column, type_column) ==
    [question_column |-> question_column,
     answer_column |-> answer_column,
     answer_options_column |-> answer_options_column,
     type_column |-> type_column,
     instruction_column |-> None,
     additional_answer_column |-> None,
     followup_column |-> None]

SheetInfo(sheet_name, header_row, data_start_row, columns) ==
    [sheet_name |-> sheet_name, header_row |-> header_row,
     data_start_row |-> data_start_row, columns |-> columns]

QuestionNames == {<<>>, NameQ, NameLowerQ, NameQA, NameUnnamed1, NameUnnamed7, NameZ}
AnswerNames == {None, NameA, NameUnnamed1, NameZ}
OptionsNames == {None, NameO}
TypeNames == {None, NameA}

BatchIdle ==
    /\ metadata = <<>> /\ max_chars = 0 /\ chunks = <<>>
    /\ xml_q = <<>> /\ uuid_issued = 0 /\ questions = <<>>
    /\ PipeIdle

\* a short sheet, every header row and every naming of the roles
InitColumns ==
    /\ \E row1 \in HeaderPool, row2 \in SecondRowPool :
           workbook = Worksheet(row1, row2, 4, NoSparse)
    /\ \E header_row \in {1, 2}, q \in QuestionNames, a \in AnswerNames,
          o \in OptionsNames, t \in TypeNames :
           structure = [sheets |->
               <<SheetInfo(SheetNameS, header_row, header_row + 1,
                           ColumnsInfo(q, a, o, t))>>]

\* plain headers, every length and sparseness of the sheet
InitRows ==
    /\ \E row2 \in {DataCells, HeaderQAO}, max_row \in MaxRowPool,
          sparse \in SparsePool :
           /\ \A r \in DOMAIN sparse : r < max_row
           /\ workbook = Worksheet(HeaderQAO, row2, max_row, sparse)
    /\ \E sheet_name \in {SheetNameS, SheetNameM}, header_row \in {1, 2},
          data_start_row \in 1..4, a \in {None, NameA} :
           structure = [sheets |->
               <<SheetInfo(sheet_name, header_row, data_start_row,
                           ColumnsInfo(NameQ, a, None, None))>>]

\* structures of no sheet and of two sheets
InitSheets ==
    /\ \E max_row \in {4, 103} :
           workbook = Worksheet(HeaderQAO, DataCells, max_row, NoSparse)
    /\ \E first \in {SheetNameS, SheetNameM}, second \in {SheetNameS, SheetNameM},
          q \in {<<>>, NameQ, NameZ}, n \in {0, 2} :
           structure = [sheets |-> Take(
               <<SheetInfo(first, 1, 2, ColumnsInfo(q, NameA, None, None)),
                 SheetInfo(second, 1, 2, ColumnsInfo(NameQ, None, None, None))>>, n)]

InitBatch ==
    /\ pc = "start"
    /\ InitColumns \/ InitRows \/ InitSheets
    /\ batches = <<>>
    /\ BatchIdle

ExtractContext ==
    /\ pc = "start"
    /\ batches' = ExtractWithContext(workbook, structure.sheets)
    /\ pc' = "done"
    /\ UNCHANGED <<metadata, max_chars, chunks, xml_q, uuid_issued, questions,
                   workbook, structure, pipe_vars, call_vars>>

NextBatch == ExtractContext

SpecBatch == InitBatch /\ [][NextBatch]_vars

\* the control step of ExtractContext: the call is entered and returns
ExtractReturns == pc = "start" /\ pc' = "done"

\* extract awaits _extract_with_context, which is run to its end: a call that
\* can return does return
SpecBatchFair == SpecBatch /\ WF_pc(ExtractReturns)

-----------------------------------------------------------------------------
(* Properties of the column resolver and the row batcher                   *)

\* the set of the elements of a list
Range(s) == {s[i] : i \in 1..Len(s)}

\* the batches made for a sheet of the structure
BatchesOf(sheet_info) ==
    {i \in 1..Len(batches) :
        /\ batches[i].sheet_name = sheet_info.sheet_name
        /\ batches[i].header_row = sheet_info.header_row
        /\ batches[i].columns_info = sheet_info.columns}

\* the 0-based positions a name matches in a list of column names, rule by rule
ExactHits(cols, name) == {i - 1 : i \in {j \in 1..Len(cols) : cols[j] = name}}
PositionalHits(cols, name) ==
    IF UnnamedMatch(name) # NoInt /\ UnnamedMatch(name)[1] < Len(cols)
    THEN {UnnamedMatch(name)[1]} ELSE {}
FuzzyHits(cols, name) ==
    {i - 1 : i \in {j \in 1..Len(cols) :
                       NormalizeColName(cols[j]) = NormalizeColName(name)}}
CaseHits(cols, name) ==
    {i - 1 : i \in {j \in 1..Len(cols) :
                       Strip(StrLower(cols[j])) = Strip(StrLower(name))}}

\* the row-accurate header list of a batch, and the first-row column list
HeaderListOf(b) == HeaderNames(RowCells(workbook, b.header_row))
MetadataListOf(b) == MetadataColumns(workbook)

\* the hits of the first rule that matches, in the order exact, positional
\* placeholder, normalized fuzzy
FirstOfThree(cols, name) ==
    IF ExactHits(cols, name) # {} THEN ExactHits(cols, name)
    ELSE IF PositionalHits(cols, name) # {} THEN PositionalHits(cols, name)
    ELSE FuzzyHits(cols, name)

MatchedByMoreThanOneRule(cols, name) ==
    Cardinality({k \in 1..3 :
        <<ExactHits(cols, name), PositionalHits(cols, name),
          FuzzyHits(cols, name)>>[k] # {}}) > 1

\* C9 as stated: a role's name that more than one of the rules exact,
\* positional placeholder and normalized fuzzy matches against the
\* row-accurate header list is rendered at a position the first of them gives.
C9_PrecedenceOnHeaderList ==
    pc = "done" =>
        \A i \in 1..Len(batches) : \A name \in Range(batches[i].columns) :
            MatchedByMoreThanOneRule(HeaderListOf(batches[i]), name) =>
                FirstOfThree(HeaderListOf(batches[i]), name)
                    \cap Range(batches[i].markdown.col_indices) # {}

\* the hits of a name in the first-row column list: exact, else normalized fuzzy
FirstInMetadata(cols, name) ==
    IF ExactHits(cols, name) # {} THEN ExactHits(cols, name)
    ELSE FuzzyHits(cols, name)

\* the hits of a name in the header row: exact, else for a placeholder name its
\* position if in range, else case-insensitive
FirstInHeaderRow(cols, name) ==
    IF ExactHits(cols, name) # {} THEN ExactHits(cols, name)
    ELSE IF UnnamedMatch(name) # NoInt THEN PositionalHits(cols, name)
    ELSE CaseHits(cols, name)

FoundInMetadata(b) ==
    \E name \in Range(b.columns) : FirstInMetadata(MetadataListOf(b), name) # {}

\* every name with a hit is rendered at one of its hits, and every column
\* rendered is a hit of some name
RenderedAre(b, hits) ==
    /\ \A name \in Range(b.columns) :
           hits[name] # {} => hits[name] \cap Range(b.markdown.col_indices) # {}
    /\ \A idx \in Range(b.markdown.col_indices) :
           \E name \in Range(b.columns) : idx \in hits[name]

\* C9, amended: the names are matched against the first-row column list,
\* exact before normalized fuzzy; only when no name of the sheet is found
\* there are they matched against the header row, exact before positional
\* placeholder before case-insensitive.
C9_TwoTierPrecedence ==
    pc = "done" =>
        \A i \in 1..Len(batches) :
            LET b == batches[i]
            IN  IF FoundInMetadata(b)
                THEN RenderedAre(b, [name \in Range(b.columns) |->
                                        FirstInMetadata(MetadataListOf(b), name)])
                ELSE RenderedAre(b, [name \in Range(b.columns) |->
                                        FirstInHeaderRow(HeaderListOf(b), name)])

\* a batch with data rows, made by the header-row lookup for a name that is
\* both a header of the row and the placeholder of another position
C9_Witness ==
    /\ pc = "done"
    /\ \E i \in 1..Len(batches) : \E name \in Range(batches[i].columns) :
           /\ ~FoundInMetadata(batches[i])
           /\ ExactHits(HeaderListOf(batches[i]), name) # {}
           /\ PositionalHits(HeaderListOf(batches[i]), name) # {}
           /\ ExactHits(HeaderListOf(batches[i]), name)
                  \cap PositionalHits(HeaderListOf(batches[i]), name) = {}
           /\ batches[i].markdown.rows # {}


\* the sheets of the structure that are sheets of the workbook
SheetsPresent ==
    {k \in 1..Len(structure.sheets) :
        structure.sheets[k].sheet_name = workbook.sheet_name}

\* the rows of the sheet, from the data-start row on and below the header row,
\* that hold text in a column the batch renders
DataRowsOf(sheet_info, col_indices) ==
    {r \in Max(sheet_info.data_start_row, sheet_info.header_row + 1)
              ..workbook.max_row : HasContent(workbook, r, col_indices)}

\* C8 as stated, for a sheet whose data start below its header row and fit in
\* the batches a sheet may have: over the batches of the sheet the rows ascend
\* from batch to batch, so that none is rendered twice, every data row that
\* holds text is rendered, and a batch short of the rows-per-batch count
\* reaches the end of the sheet.
C8_RowsRenderedExactlyOnce ==
    pc = "done" =>
        \A k \in SheetsPresent :
            LET sheet_info == structure.sheets[k]
                bs == BatchesOf(sheet_info)
            IN  (/\ sheet_info.data_start_row > sheet_info.header_row
                 /\ workbook.max_row < sheet_info.data_start_row
                        + MAX_BATCHES_PER_SHEET * MAX_ROWS_PER_BATCH
                 /\ Cardinality({j \in SheetsPresent :
                                     structure.sheets[j] = sheet_info}) = 1)
                =>
                /\ \A i \in bs, j \in bs :
                       i < j => \A r \in batches[i].markdown.rows,
                                   q \in batches[j].markdown.rows : r < q
                /\ \A i \in bs :
                       \A r \in DataRowsOf(sheet_info, batches[i].markdown.col_indices) :
                           \E j \in bs : r \in batches[j].markdown.rows
                /\ \A i \in bs :
                       \/ Cardinality(batches[i].markdown.rows) = MAX_ROWS_PER_BATCH
                       \/ \A r \in DataRowsOf(sheet_info, batches[i].markdown.col_indices) :
                              r >= batches[i].data_start_row
                                  => r \in batches[i].markdown.rows

\* a name that no rule matches, neither in the first-row column list nor in
\* the header row of the sheet
MatchesNoRule(sheet_info, name) ==
    LET meta == MetadataColumns(workbook)
        hdrs == HeaderNames(RowCells(workbook, sheet_info.header_row))
    IN  /\ ExactHits(meta, name) = {} /\ FuzzyHits(meta, name) = {}
        /\ ExactHits(hdrs, name) = {} /\ PositionalHits(hdrs, name) = {}
        /\ FuzzyHits(hdrs, name) = {} /\ CaseHits(hdrs, name) = {}

\* C10 as stated: a batch renders no column for a role whose name matches no
\* rule, and a sheet whose question column matches no rule gets no batch.
C10_UnmatchedQuestionColumnSkipsSheet ==
    pc = "done" =>
        /\ \A i \in 1..Len(batches) :
               Len(batches[i].markdown.col_indices)
                   <= Cardinality({name \in Range(batches[i].columns) :
                          ~MatchesNoRule(batches[i], name)})
        /\ \A k \in SheetsPresent :
               MatchesNoRule(structure.sheets[k],
                             structure.sheets[k].columns.question_column)
                   => BatchesOf(structure.sheets[k]) = {}


-----------------------------------------------------------------------------
(* StageOrchestrator: extract, _analyze_structure, _validate_coverage,     *)
(* _extract_questions and the parsers of the LLM responses                 *)

SONNET_MAX_INPUT_TOKENS == 180000
CHARS_PER_TOKEN == 4
MAX_INPUT_CHARS == SONNET_MAX_INPUT_TOKENS * CHARS_PER_TOKEN
MAX_CELL_LENGTH == 200

\* A float, kept exact as a fraction in lowest terms; confidences are counted
\* in hundredths (0.95 is Rat(95, 1)).
RECURSIVE Gcd(_, _)
Gcd(a, b) == IF b = 0 THEN a ELSE Gcd(b, a % b)
Rat(num, den) ==
    LET g == Gcd(num, den)
    IN  IF num = 0 THEN [num |-> 0, den |-> 1]
        ELSE [num |-> num \div g, den |-> den \div g]
RatAdd(a, b) == Rat(a.num * b.den + b.num * a.den, a.den * b.den)
RatDiv(a, n) == Rat(a.num, a.den * n)

\* ws.cell(row_idx, col_idx + 1).value: the text of a data cell below the
\* second row is not told apart, it is "v".
CellValue(wb, row_idx, col_idx) ==
    IF row_idx <= 2 THEN RowCells(wb, row_idx)[col_idx + 1]
    ELSE IF CellHasText(wb, row_idx, col_idx) THEN <<"v">> ELSE None

\* cell_str[:MAX_CELL_LENGTH] + "..."
TruncateCell(cell_str) ==
    IF Len(cell_str) > MAX_CELL_LENGTH
    THEN SubSeq(cell_str, 1, MAX_CELL_LENGTH) \o <<".", ".", ".">>
    ELSE cell_str

\* row_data of one sample row: the dict keyed by the column names, written
\* cell by cell for the first MAX_SAMPLE_COLS cells (a column name borne by
\* two header cells is one key, and keeps the value of the later cell)
SampleRowData(wb, row_idx) ==
    RowDict(Take(MetadataColumns(wb), MAX_SAMPLE_COLS),
            [c \in 1..Min(Len(wb.row1), MAX_SAMPLE_COLS) |->
                IF CellValue(wb, row_idx, c - 1) = None THEN None
                ELSE TruncateCell(CellValue(wb, row_idx, c - 1))])

\* any(v is not None for v in row_data.values())
RowHasValue(row_data) == \E c \in 1..Len(row_data) : row_data[c].value # None

\* _get_excel_metadata, for the one sheet of the workbook
GetExcelMetadata(wb) ==
    LET last == Min(wb.max_row, MAX_SAMPLE_ROWS + 1)
        rows == [i \in 1..(last - 1) |-> SampleRowData(wb, i + 1)]
    IN  << [name |-> wb.sheet_name,
            columns |-> MetadataColumns(wb),
            row_count |-> Cardinality({r \in 2..wb.max_row :
                              \E c \in 1..Len(wb.row1) : CellValue(wb, r, c - 1) # None}),
            sample_data |-> SelectSeq(rows, RowHasValue)] >>

\* Path(file_path).stem of a .csv file
CsvStem == <<"d", "a", "t", "a">>

(* A .csv file is given by rows, the list csv.reader yields for it under the *)
(* dialect csv.Sniffer guesses from the first 8192 characters (csv.excel when *)
(* the sniffer raises): each row a sequence of strings, the rows of any      *)
(* lengths, the list empty for an empty file.                                *)
CsvFile(rows) == [rows |-> rows]

\* _get_csv_metadata: the column names, from rows[0]
CsvColumns(header) ==
    [i \in 1..Len(header) |->
        IF Strip(header[i]) # <<>> THEN Strip(header[i])
        ELSE UnnamedName(i - 1)]

\* _get_csv_metadata: row_data of one data row, written cell by cell for the
\* first MAX_SAMPLE_COLS cells that have a column name
CsvRowData(columns, row) ==
    RowDict(columns,
            [c \in 1..Min(Len(row), MAX_SAMPLE_COLS) |->
                IF Strip(row[c]) # <<>> THEN TruncateCell(Strip(row[c]))
                ELSE None])

\* _get_csv_metadata: the one "sheet" of the file, named after it
GetCsvMetadata(rows) ==
    IF rows = <<>>
    THEN << [name |-> CsvStem, columns |-> <<>>, row_count |-> 0,
             sample_data |-> <<>>] >>
    ELSE LET columns == CsvColumns(rows[1])
             data_rows == Tail(rows)
             sampled == [i \in 1..Min(Len(data_rows), MAX_SAMPLE_ROWS) |->
                            CsvRowData(columns, data_rows[i])]
         IN  << [name |-> CsvStem,
                 columns |-> columns,
                 row_count |-> Cardinality({i \in 1..Len(data_rows) :
                                   \E c \in 1..Len(data_rows[i]) :
                                       Strip(data_rows[i][c]) # <<>>}),
                 sample_data |-> SelectSeq(sampled, RowHasValue)] >>

\* get_file_metadata: the file is a workbook that opens and has the sheet
\* ("ok"), a workbook that opens and has no sheet, a workbook that cannot be
\* opened (openpyxl raises), or a .csv file, wb then the CsvFile of its rows
FileRaises(state) == state = "unreadable"
GetFileMetadata(state, wb) ==
    IF state = "no_sheets" THEN <<>>
    ELSE IF state = "csv" THEN GetCsvMetadata(wb.rows)
    ELSE GetExcelMetadata(wb)

\* openpyxl.load_workbook(file_path, ...) of _extract_with_context raises:
\* the file cannot be opened, or is not of a format openpyxl reads (.csv)
LoadWorkbookRaises(state) == state \in {"unreadable", "csv"}

(* The text an LLM call returns is a sequence of tokens: a run of prose     *)
(* ("junk"), white space ("space"), the opening root tag without            *)
(* attributes ("open"), the closing root tag ("close") and whole elements.  *)
(* A call returns a text or raises.                                         *)
Junk == [tag |-> "junk"]
Space == [tag |-> "space"]
Open == [tag |-> "open"]
Close == [tag |-> "close"]
Returns(text) == [raises |-> FALSE, text |-> text]
Raises == [raises |-> TRUE, text |-> <<>>]

\* not response or not response.strip()
IsBlank(response) == \A i \in 1..Len(response) : response[i].tag = "space"

\* xml.find(opening tag), xml.rfind(closing tag): token positions, 0 for -1
FindOpen(xml) ==
    IF \E i \in 1..Len(xml) : xml[i].tag = "open"
    THEN SetMin({i \in 1..Len(xml) : xml[i].tag = "open"}) ELSE 0
RFindClose(xml) ==
    IF \E i \in 1..Len(xml) : xml[i].tag = "close"
    THEN SetMax({i \in 1..Len(xml) : xml[i].tag = "close"}) ELSE 0

\* xml_text: from the first opening tag to the last closing tag, or to the
\* end with a closing tag appended when there is no closing tag at all
XmlText(xml) ==
    IF RFindClose(xml) = 0 THEN SubSeq(xml, FindOpen(xml), Len(xml)) \o <<Close>>
    ELSE SubSeq(xml, FindOpen(xml), RFindClose(xml))

\* BeautifulSoup(xml_text, "xml").find(root): <<>> when there is no root
\* element, else <<the tokens inside the root element>>.  Defined for the
\* texts the parsers can be handed here: empty, or one opening tag followed
\* by prose and elements and the closing tag.
SoupFindRoot(xml_text) ==
    IF xml_text = <<>> \/ xml_text[1].tag # "open" THEN <<>>
    ELSE << SubSeq(xml_text, 2,
                   SetMin({i \in 2..Len(xml_text) : xml_text[i].tag = "close"}) - 1) >>

\* a <sheet> element of a structure response: its attributes as strings
\* (None when absent), its confidence in hundredths (NoInt when absent), and
\* columns: <<>> without a <columns> child, else <<its attributes>>
SheetTag(sheet_name, header_row, data_start_row, confidence, columns) ==
    [tag |-> "sheet", sheet_name |-> sheet_name, header_row |-> header_row,
     data_start_row |-> data_start_row, confidence |-> confidence,
     columns |-> columns]

\* columns_tag.get(name, "") and columns_tag.get(name) or None
GetOrEmpty(attr) == IF attr = None THEN <<>> ELSE attr
GetOrNone(attr) == IF Truthy(attr) THEN attr ELSE None

\* the "columns" dict of one sheet; an empty dict answers None to every get
SheetColumns(sheet_tag) ==
    IF sheet_tag.columns = <<>> THEN ColumnsInfo(None, None, None, None)
    ELSE LET c == sheet_tag.columns[1]
         IN  [question_column |-> GetOrEmpty(c.question_column),
              answer_column |-> GetOrNone(c.answer_column),
              answer_options_column |-> GetOrNone(c.answer_options_column),
              type_column |-> GetOrNone(c.type_column),
              instruction_column |-> GetOrNone(c.instruction_column),
              additional_answer_column |-> GetOrNone(c.additional_answer_column),
              followup_column |-> GetOrNone(c.followup_column)]

\* int(sheet_tag.get(name, default)) raises on a text that is no integer
IntAttrRaises(attr) == attr # None /\ ~IsIntLiteral(attr)
IntAttr(attr, default) == IF attr = None THEN default ELSE ParseInt(attr)

SheetTagRaises(sheet_tag) ==
    IntAttrRaises(sheet_tag.header_row) \/ IntAttrRaises(sheet_tag.data_start_row)

\* the dict appended to sheets for one <sheet> element
SheetRecord(sheet_tag) ==
    [sheet_name |-> GetOrEmpty(sheet_tag.sheet_name),
     header_row |-> IntAttr(sheet_tag.header_row, 1),
     data_start_row |-> IntAttr(sheet_tag.data_start_row, 2),
     columns |-> SheetColumns(sheet_tag),
     structure_notes |-> <<>>]

\* sheet_confidence
SheetConfidence(sheet_tag) ==
    IF sheet_tag.confidence = NoInt THEN 0 ELSE sheet_tag.confidence[1]

NoStructure == [sheets |-> <<>>, confidence |-> Rat(0, 1)]

IsSheetTag(token) == token.tag = "sheet"

\* _parse_structure_xml
ParseStructureXml(xml) ==
    IF FindOpen(xml) = 0 THEN NoStructure
    ELSE LET root == SoupFindRoot(XmlText(xml))
         IN  IF root = <<>> THEN NoStructure
             ELSE LET sheet_tags == SelectSeq(root[1], IsSheetTag)
                      n == Len(sheet_tags)
                  IN  IF \E i \in 1..n : SheetTagRaises(sheet_tags[i])
                      THEN NoStructure
                      ELSE [sheets |-> [i \in 1..n |-> SheetRecord(sheet_tags[i])],
                            confidence |->
                                IF n = 0 THEN Rat(0, 1)
                                ELSE Rat(SumSeq([i \in 1..n |->
                                             SheetConfidence(sheet_tags[i])]), n)]


\* A file under the run's intermediate_results directory: its name, with the
\* chunk or batch number it carries (0 when it carries none).
File(name, n) == [file |-> name, n |-> n]

\* the prompt and response files of a chunk (lines 356-360 and 373-376)
StructurePromptFile(chunk_count, chunk_no) ==
    IF chunk_count = 1 THEN File("step1_structure_analysis_prompt.txt", 0)
    ELSE File("step1_structure_chunk_N_prompt.txt", chunk_no)
StructureResponseFile(chunk_count, chunk_no) ==
    IF chunk_count = 1 THEN File("step1_structure_analysis_response.xml", 0)
    ELSE File("step1_structure_chunk_N_response.xml", chunk_no)

\* The room for writes: <<>> when no write can fail, <<n>> when the next n
\* writes succeed and every later one raises OSError (no space left).
NoLimit == <<>>
\* path.write_text(...) succeeds
CanWrite(space) == space = NoLimit \/ space[1] > 0
\* the room left after a write that succeeded
AfterWrite(space) == IF space = NoLimit THEN NoLimit ELSE <<space[1] - 1>>
\* "if intermediate_dir:" before every write: without directory nothing is
\* written, so no write fails
SpaceFor(dir, disk_state) == IF dir = <<>> THEN NoLimit ELSE disk_state

\* one call of _invoke_llm, as llm_log keeps it
LlmCall(stage_name, n, outcome) == [stage |-> stage_name, n |-> n, outcome |-> outcome]

\* The locals of a function that calls the LLM, between two of its waits:
\* what it has accumulated, the calls it has counted and made, the files it
\* has written, the room left for writes, and whether a write has raised
\* (which ends the function) since the last wait.
StructureAcc(sheets, confidence, space) ==
    [all_sheets |-> sheets, total_confidence |-> confidence,
     calls |-> 0, log |-> <<>>, files |-> {},
     space |-> space, write_raised |-> FALSE]

\* a turn of "for chunk_idx, sheet_chunk in enumerate(chunks)" up to its
\* wait for the LLM: the prompt is written
StructurePrompt(chunk_count, chunk_no, acc) ==
    IF ~CanWrite(acc.space) THEN [acc EXCEPT !.write_raised = TRUE]
    ELSE [acc EXCEPT
             !.files = @ \cup {StructurePromptFile(chunk_count, chunk_no)},
             !.space = AfterWrite(@)]

\* the rest of the turn, once the call has done o: a call that raised is
\* not counted and the turn ends; else the call is counted, the response is
\* written and, unless blank, parsed and merged
StructureAnswer(chunk_count, chunk_no, o, acc) ==
    LET called == [acc EXCEPT
            !.log = Append(@, LlmCall("StructureAnalysis", chunk_no, o))]
        counted == [called EXCEPT !.calls = @ + 1]
        answered == [counted EXCEPT
            !.files = @ \cup {StructureResponseFile(chunk_count, chunk_no)},
            !.space = AfterWrite(@)]
        parsed == ParseStructureXml(o.text)
    IN  IF o.raises THEN called
        ELSE IF ~CanWrite(counted.space) THEN [counted EXCEPT !.write_raised = TRUE]
        ELSE IF IsBlank(o.text) THEN answered
        ELSE [answered EXCEPT
                 !.all_sheets = @ \o parsed.sheets,
                 !.total_confidence = RatAdd(@, parsed.confidence)]

\* avg_confidence = total_confidence / chunk_count
AvgConfidence(confidence_sum, chunk_count) == RatDiv(confidence_sum, chunk_count)

\* merged_result; without chunks the function has returned before the loop
MergedResult(chunk_count, acc) ==
    IF chunk_count = 0 THEN NoStructure
    ELSE [sheets |-> acc.all_sheets,
          confidence |-> AvgConfidence(acc.total_confidence, chunk_count)]


\* the default record of the coverage stage
CoverageDefault ==
    [is_complete |-> TRUE, missing_elements |-> <<>>, suggestions |-> <<>>,
     confidence |-> Rat(50, 1)]

\* tokens of a coverage response: the root tag with attributes, as the prompt
\* shows it (the parser looks for the tag without attributes), and the
\* <missing_elements> and <suggestions> blocks with the texts of their items
OpenWithAttributes(is_complete, confidence) ==
    [tag |-> "open_attr", is_complete |-> is_complete, confidence |-> confidence]
MissingElements(elements) == [tag |-> "missing_elements", items |-> elements]
Suggestions(suggestions) == [tag |-> "suggestions", items |-> suggestions]

\* coverage_tag.find(name), then get_text(strip=True) of each item of the
\* first such block
ItemsOfFirst(body, name) ==
    LET at == {i \in 1..Len(body) : body[i].tag = name}
    IN  IF at = {} THEN <<>>
        ELSE [k \in 1..Len(body[SetMin(at)].items) |-> Strip(body[SetMin(at)].items[k])]

\* (A parser that reports unparseable output as incomplete coverage.)
ParseCoverageXmlIncomplete(xml) ==
    IF FindOpen(xml) = 0
    THEN [CoverageDefault EXCEPT !.is_complete = FALSE, !.confidence = Rat(0, 1)]
    ELSE [is_complete |-> TRUE,
          missing_elements |-> ItemsOfFirst(SoupFindRoot(XmlText(xml))[1], "missing_elements"),
          suggestions |-> ItemsOfFirst(SoupFindRoot(XmlText(xml))[1], "suggestions"),
          confidence |-> Rat(50, 1)]

\* _parse_coverage_xml: the root found has no attribute, so is_complete and
\* confidence take their defaults
ParseCoverageXml(xml) ==
    IF FindOpen(xml) = 0 THEN CoverageDefault
    ELSE LET root == SoupFindRoot(XmlText(xml))
         IN  IF root = <<>> THEN CoverageDefault
             ELSE [is_complete |-> TRUE,
                   missing_elements |-> ItemsOfFirst(root[1], "missing_elements"),
                   suggestions |-> ItemsOfFirst(root[1], "suggestions"),
                   confidence |-> Rat(50, 1)]

\* what _validate_coverage returns for a response (lines 447-456)
CoverageOfResponse(response) ==
    IF IsBlank(response) THEN CoverageDefault ELSE ParseCoverageXml(response)

\* the locals of _validate_coverage between two of its waits
CoverageAcc(space) ==
    [raised |-> FALSE, write_raised |-> FALSE, coverage |-> CoverageDefault,
     calls |-> 0, log |-> <<>>, files |-> {}, space |-> space]

\* _validate_coverage up to its wait for the LLM: the prompt is written
CoveragePrompt(acc) ==
    IF ~CanWrite(acc.space) THEN [acc EXCEPT !.write_raised = TRUE]
    ELSE [acc EXCEPT
             !.files = @ \cup {File("step2_coverage_validation_prompt.txt", 0)},
             !.space = AfterWrite(@)]

\* (A coverage stage that is a gate: missing elements end the run.)
CoverageAnswerAsGate(outcome, acc) ==
    [acc EXCEPT
        !.raised = outcome.raises
                   \/ CoverageOfResponse(outcome.text).missing_elements # <<>>,
        !.coverage = IF outcome.raises THEN CoverageDefault
                     ELSE CoverageOfResponse(outcome.text),
        !.calls = IF outcome.raises THEN @ ELSE @ + 1,
        !.log = Append(@, LlmCall("CoverageValidation", 0, outcome))]

\* the rest of _validate_coverage, once the call has done outcome: a call
\* that raised ends the function; else the call is counted, the response is
\* written and parsed
CoverageAnswer(outcome, acc) ==
    LET called == [acc EXCEPT
            !.log = Append(@, LlmCall("CoverageValidation", 0, outcome))]
        counted == [called EXCEPT !.calls = @ + 1]
    IN  IF outcome.raises THEN [called EXCEPT !.raised = TRUE]
        ELSE IF ~CanWrite(counted.space) THEN [counted EXCEPT !.write_raised = TRUE]
        ELSE [counted EXCEPT
                 !.files = @ \cup {File("step2_coverage_validation_response.xml", 0)},
                 !.space = AfterWrite(@),
                 !.coverage = CoverageOfResponse(outcome.text)]

\* a <q> element of an extraction response
QToken(q) == [tag |-> "q", q |-> q]

\* re.sub(r'sheet="[^"]*"', f'sheet="{actual_sheet_name}"', response): every
\* sheet attribute that is present takes the batch's sheet name
SubSheetName(response, actual_sheet_name) ==
    [i \in 1..Len(response) |->
        IF response[i].tag = "q" /\ response[i].q.sheet # None
        THEN QToken([response[i].q EXCEPT !.sheet = actual_sheet_name])
        ELSE response[i]]

IsRootTag(token) == token.tag \in {"open", "close"}
NotRootTag(token) == ~IsRootTag(token)

\* s.strip() on tokens
RECURSIVE LStripTokens(_)
LStripTokens(s) ==
    IF s # <<>> /\ Head(s).tag = "space" THEN LStripTokens(Tail(s)) ELSE s
RECURSIVE RStripTokens(_)
RStripTokens(s) ==
    IF s # <<>> /\ s[Len(s)].tag = "space"
    THEN RStripTokens(SubSeq(s, 1, Len(s) - 1)) ELSE s

\* part.replace("<questions>", "").replace("</questions>", "").strip()
StripRoot(part) == RStripTokens(LStripTokens(SelectSeq(part, NotRootTag)))

\* "\n".join(parts)
RECURSIVE JoinParts(_)
JoinParts(parts) ==
    IF parts = <<>> THEN <<>>
    ELSE IF Len(parts) = 1 THEN parts[1]
    ELSE parts[1] \o <<Space>> \o JoinParts(Tail(parts))

\* combined_xml (lines 508-511)
CombinedXml(parts) ==
    <<Open, Space>>
    \o JoinParts([k \in 1..Len(parts) |-> StripRoot(parts[k])])
    \o <<Space, Close>>

\* (A loop that puts the newest batch result first.)
AllXmlPartsPrepend(parts, response) == <<response>> \o parts
\* all_xml_parts.append(response)
AllXmlPartsAppend(parts, response) == Append(parts, response)

\* the locals of _extract_questions between two of its waits
ExtractionAcc(parts, space) ==
    [all_xml_parts |-> parts, calls |-> 0, log |-> <<>>, files |-> {},
     raised |-> FALSE, space |-> space, write_raised |-> FALSE]

\* a turn of "for batch in batches" up to its wait for the LLM: the prompt
\* is written
ExtractionPrompt(batch_no, acc) ==
    IF ~CanWrite(acc.space) THEN [acc EXCEPT !.write_raised = TRUE]
    ELSE [acc EXCEPT
             !.files = @ \cup {File("step3_extraction_batch_N_prompt.txt", batch_no)},
             !.space = AfterWrite(@)]

\* the rest of the turn, once the call has done o: a call that raised ends
\* the function; else the call is counted, the raw response is written, the
\* sheet names are rewritten, the result is written and appended
ExtractionAnswer(bs, batch_no, o, acc) ==
    LET called == [acc EXCEPT !.log = Append(@, LlmCall("Extraction", batch_no, o))]
        counted == [called EXCEPT !.calls = @ + 1]
        raw_saved == [counted EXCEPT
            !.files = @ \cup
                {File("step3_extraction_batch_N_response_raw.xml", batch_no)},
            !.space = AfterWrite(@)]
        xml_saved == [raw_saved EXCEPT
            !.files = @ \cup
                {File("step3_question_extraction_batch_N.xml", batch_no)},
            !.space = AfterWrite(@)]
        response == SubSheetName(o.text, bs[batch_no].sheet_name)
    IN  IF o.raises THEN [called EXCEPT !.raised = TRUE]
        ELSE IF ~CanWrite(counted.space) THEN [counted EXCEPT !.write_raised = TRUE]
        ELSE IF ~CanWrite(raw_saved.space) THEN [raw_saved EXCEPT !.write_raised = TRUE]
        ELSE [xml_saved EXCEPT !.all_xml_parts = AllXmlPartsAppend(@, response)]

\* after the loop: the combined output is written
ExtractionCombine(acc) ==
    IF ~CanWrite(acc.space) THEN [acc EXCEPT !.write_raised = TRUE]
    ELSE [acc EXCEPT
             !.files = @ \cup {File("step3_question_extraction_combined.xml", 0)},
             !.space = AfterWrite(@)]

\* "for batch in batches": outcomes[k] is what the LLM call of batch k does;
\* a call that raises, and a write that raises, end the loop and the stage
RECURSIVE ExtractionLoop(_, _, _, _)
ExtractionLoop(bs, outcomes, batch_no, acc) ==
    IF batch_no > Len(bs) THEN acc
    ELSE LET prompted == ExtractionPrompt(batch_no, acc)
             answered == ExtractionAnswer(bs, batch_no, outcomes[batch_no], prompted)
         IN  IF prompted.write_raised THEN prompted
             ELSE IF answered.raised \/ answered.write_raised THEN answered
             ELSE ExtractionLoop(bs, outcomes, batch_no + 1, answered)

\* _extract_questions from its first line to its return, given the batches,
\* what each batch's LLM call does and the room for writes
ExtractQuestions(bs, outcomes, space) ==
    LET acc == ExtractionLoop(bs, outcomes, 1, ExtractionAcc(<<>>, space))
        ended == IF acc.raised \/ acc.write_raised THEN acc ELSE ExtractionCombine(acc)
    IN  [raised |-> ended.raised, write_raised |-> ended.write_raised,
         combined_xml |-> CombinedXml(ended.all_xml_parts),
         calls |-> ended.calls, log |-> ended.log, files |-> ended.files,
         space |-> ended.space]

IsQToken(token) == token.tag = "q"

\* soup.find("questions") and questions_tag.find_all("q") of
\* _normalize_to_objects: the q elements of the block, in document order
QElements(xml) ==
    LET root == SoupFindRoot(IF FindOpen(xml) = 0 THEN <<>>
                             ELSE SubSeq(xml, FindOpen(xml), Len(xml)))
    IN  IF root = <<>> THEN <<>>
        ELSE LET qs == SelectSeq(root[1], IsQToken)
             IN  [k \in 1..Len(qs) |-> qs[k].q]


\* run_id = run_id or f"pipeline_{int(time.time())}"
PipelinePrefix == <<"p", "i", "p", "e", "l", "i", "n", "e", "_">>
LocalRunId(run_id_arg, now) ==
    IF Truthy(run_id_arg) THEN run_id_arg ELSE PipelinePrefix \o IntToStr(now)

\* "if run_id:" (lines 218-222): the run directory, or None
IntermediateDirOf(local_run_id) ==
    IF Truthy(local_run_id) THEN <<local_run_id>> ELSE <<>>

\* "if intermediate_dir:" before every write: the files as written under dir
Written(dir, files) ==
    IF dir = <<>> THEN {}
    ELSE {[dir |-> dir[1], file |-> f.file, n |-> f.n] : f \in files}

\* _save_intermediate_result: the write is inside try/except, a failure is
\* logged and the file is not written
Saved(dir, space, files) ==
    IF CanWrite(space) THEN Written(dir, files) ELSE {}

\* the room left after _save_intermediate_result
AfterSave(space) == IF CanWrite(space) THEN AfterWrite(space) ELSE space

\* the disk after the writes of a stage that found the room SpaceFor(dir,
\* disk_state) and left the room space
DiskAfter(dir, disk_state, space) == IF dir = <<>> THEN disk_state ELSE space

\* ExtractionMetrics: the optional fields are <<>> when unset.  The four
\* per-stage timers are clock readings and are not kept.
Metrics(extraction_count, total_time_ms, llm_calls, structure_confidence, coverage_confidence, show_dependencies_count, skip_dependencies_count) ==
    [extraction_count |-> extraction_count,
     total_time_ms |-> total_time_ms,
     total_llm_calls |-> llm_calls,
     structure_confidence |-> structure_confidence,
     coverage_confidence |-> coverage_confidence,
     show_dependencies_count |-> show_dependencies_count,
     skip_dependencies_count |-> skip_dependencies_count]

\* ExtractionResult(approach=4, ...): metrics is <<>> when unset
ExtractionResult(success, qs, error, metrics) ==
    [approach |-> 4, success |-> success, questions |-> qs, error |-> error,
     metrics |-> metrics]

\* the two early returns (lines 236-240 and 260-264)
FailureReturn(error) == ExtractionResult(FALSE, <<>>, error, <<>>)

\* (An except branch that returns no metrics.)
ExceptionReturnNoMetrics(error, elapsed_ms) == FailureReturn(error)
\* the except branch (lines 307-317)
ExceptionReturn(error, elapsed_ms) ==
    ExtractionResult(FALSE, <<>>, error,
                     <<Metrics(0, elapsed_ms, <<>>, <<>>, <<>>, <<>>, <<>>)>>)

\* show_deps_count / skip_deps_count
DependenciesCount(qs, action) ==
    Cardinality({i \in 1..Len(qs) :
        \E k \in 1..Len(qs[i].dependencies) :
            qs[i].dependencies[k].dependency_action = action})

\* the return of a completed run (lines 277-305)
SuccessReturn(qs, elapsed_ms, llm_calls, structure_analysis, coverage_record) ==
    ExtractionResult(TRUE, qs, <<>>,
        <<Metrics(Len(qs), elapsed_ms, <<llm_calls>>,
                  <<structure_analysis.confidence>>,
                  <<coverage_record.confidence>>,
                  <<DependenciesCount(qs, "show")>>,
                  <<DependenciesCount(qs, "skip")>>)>>)

\* (The check "if not structure" alone: the dict is never empty.)
StructureMissing(structure_analysis) == FALSE
\* (A check that also gives up on a single sheet.)
NoSheetsIdentifiedOrOne(structure_analysis) == Len(structure_analysis.sheets) <= 1
\* "if not structure or not structure.get("sheets")"
NoSheetsIdentified(structure_analysis) == structure_analysis.sheets = <<>>

\* "if not xml_output"
NoExtractionOutput(combined_xml) == combined_xml = <<>>


-----------------------------------------------------------------------------
(* Inputs of a run of extract: the file, the run identifier, the clock and *)
(* what each LLM call does                                                 *)

ColumnsTag(question_column, answer_column) ==
    [question_column |-> question_column, answer_column |-> answer_column,
     answer_options_column |-> None, type_column |-> None,
     instruction_column |-> None, additional_answer_column |-> None,
     followup_column |-> None]

AttrOne == <<"1">>
AttrTwo == <<"2">>
AttrNotANumber == <<"x">>

\* the sheet of the file with its question and answer columns
SheetTagS == SheetTag(SheetNameS, AttrOne, AttrTwo, <<95>>, <<ColumnsTag(NameQ, NameA)>>)
\* the same with defaults for every optional attribute
SheetTagDefaults == SheetTag(SheetNameS, None, None, NoInt, <<ColumnsTag(NameQ, None)>>)
\* a sheet record without question column
SheetTagNoQuestion == SheetTag(SheetNameS, AttrOne, AttrTwo, <<60>>, <<>>)
\* a sheet the file does not have
SheetTagM == SheetTag(SheetNameM, AttrOne, AttrTwo, <<75>>, <<ColumnsTag(NameQ, NameA)>>)
\* a header_row that is no number
SheetTagBad == SheetTag(SheetNameS, AttrNotANumber, AttrTwo, <<95>>, <<ColumnsTag(NameQ, NameA)>>)

StructureTexts ==
    { <<>>, <<Space>>, <<Junk>>,
      <<Open, Close>>,
      <<Open, SheetTagS, Close>>,
      <<Junk, Open, Space, SheetTagS, Junk, SheetTagM, Close, Junk>>,
      <<Open, SheetTagDefaults>>,
      <<Close, Junk, Open, SheetTagS>>,
      <<Close, Open, SheetTagS, Close>>,
      <<Open, SheetTagNoQuestion, Close>>,
      <<Open, SheetTagS, SheetTagBad, Close>> }

StructureOutcomes == {Raises} \cup {Returns(t) : t \in StructureTexts}

TextE == <<" ", "e">>
TextG == <<"g">>

CoverageTexts ==
    { <<>>, <<Space, Space>>, <<Junk>>,
      <<OpenWithAttributes(FALSE, <<92>>), MissingElements(<<TextE>>), Close>>,
      <<Open, Close>>,
      <<Junk, Open, MissingElements(<<TextE>>), Suggestions(<<TextG>>), Close, Junk>>,
      <<Open, Suggestions(<<TextG>>)>>,
      <<Close, Open, MissingElements(<<TextE>>)>> }

CoverageOutcomes == {Raises} \cup {Returns(t) : t \in CoverageTexts}

SheetOne == <<"S", "h", "e", "e", "t", "1">>
QRow2 == QToken(QTag(TRUE, SheetOne, Row2, TRUE, <<DependsOnRow(Row1)>>))
QRow1 == QToken(QTag(TRUE, None, Row1, FALSE, <<>>))
QNoText == QToken(QTag(FALSE, SheetOne, Row1, FALSE, <<>>))

\* q elements on which the normaliser fails: a row that is no integer, and
\* a dependency with an action outside the allowed values
QBadRow == QToken(QTag(TRUE, SheetOne, RowX, FALSE, <<>>))
QBadAction == QToken(QTag(TRUE, SheetOne, Row9, TRUE, <<DependsOnBadAction(Row1)>>))

ExtractionTexts ==
    { <<>>, <<Junk>>,
      <<Open, QRow1, Close>>,
      <<Open, QRow1, Space, QRow2>>,
      <<Junk, Open, QRow2, QNoText, Close, Junk>>,
      <<QRow2>>,
      <<Open, QRow1, QBadRow, QRow2, Close>>,
      <<Open, QRow2, QBadAction, QRow1, Close>> }

ExtractionOutcomes == {Raises} \cup {Returns(t) : t \in ExtractionTexts}

RunIdR1 == <<"r", "1">>
RunIds == {None, <<>>, RunIdR1}
NowPool == {1761782400}
ElapsedPool == {0, 1250}
FileStates == {"ok", "no_sheets", "unreadable", "csv"}

\* the rows of the .csv files: three columns and two data rows; the same with
\* LongCsvRows rows in all; a blank header cell, a padded cell and a blank
\* row; one column name borne by two header cells; a last row shorter than
\* the header; a header row alone; no row at all
LongCsvRows == 103
CsvRowV == <<<<"v">>, <<"v">>, <<"v">>>>
CsvPlain == <<HeaderQAO, DataCells, CsvRowV>>
CsvLong == <<HeaderQAO, DataCells>> \o [i \in 1..(LongCsvRows - 2) |-> CsvRowV]
CsvBlank == << <<NameQ, <<>>, NameO>>, << <<" ", "w", " ">>, <<>>, <<"z">> >>,
              << <<>>, <<>>, <<>> >>, CsvRowV >>
CsvDup == << <<NameQ, NameQ, NameA>>, DataCells, << <<"v">>, <<>>, <<>> >> >>
CsvShort == <<HeaderQAO, DataCells>> \o [i \in 1..9 |-> CsvRowV]
                \o << << <<"v">>, <<"v">> >> >>
CsvHeaderOnly == <<HeaderQAO>>
CsvRowsPool == {CsvPlain, CsvLong, CsvBlank, CsvDup, CsvShort, CsvHeaderOnly, <<>>}

Enter(next_stage) == stage' = next_stage /\ visited' = Append(visited, next_stage)

InitPipe ==
    /\ pc = "start"
    /\ file_state \in FileStates
    /\ IF file_state = "csv"
       THEN \E rows \in CsvRowsPool : workbook = CsvFile(rows)
       ELSE \E max_row \in {3, 103} :
                workbook = Worksheet(HeaderQAO, DataCells, max_row, NoSparse)
    /\ run_id \in RunIds
    /\ metadata = <<>> /\ max_chars = MAX_INPUT_CHARS /\ chunks = <<>>
    /\ structure = NoStructure /\ batches = <<>>
    /\ xml_q = <<>> /\ uuid_issued = 0 /\ questions = <<>>
    /\ stage = "Idle" /\ visited = <<>>
    /\ total_llm_calls = 0 /\ llm_log = <<>> /\ intermediate_dir = <<>>
    /\ artifacts = {}
    /\ coverage = <<>> /\ xml_output = <<>> /\ result = <<>>
    /\ disk = <<>> /\ run_no = 1 /\ all_xml_parts = <<>> /\ batch_num = 0
    /\ column_mappings = <<>> /\ total_count = 0
    /\ chunk_num = 0 /\ all_sheets = <<>> /\ total_confidence = [num |-> 0, den |-> 1]

\* extract is called (lines 211-222)
CallExtract ==
    /\ stage = "Idle"
    /\ \E now \in NowPool :
           intermediate_dir' = IntermediateDirOf(LocalRunId(run_id, now))
    /\ Enter("StructureAnalysis")
    /\ UNCHANGED <<pc, metadata, max_chars, chunks, xml_q, uuid_issued, questions,
                   workbook, structure, batches, run_id, file_state,
                   total_llm_calls, llm_log, artifacts, coverage, xml_output, result>>
    /\ UNCHANGED call_vars

\* the except branch: the run ends with the failure result
Except(error) ==
    /\ \E elapsed_ms \in ElapsedPool : result' = <<ExceptionReturn(error, elapsed_ms)>>
    /\ Enter("Failed")
    /\ pc' = "done"

\* What the code run between two waits did to the service instance and to
\* the run directory; saved names the files _save_intermediate_result, whose
\* write is guarded, was asked to write last.
StageEffects(r, saved) ==
    /\ total_llm_calls' = total_llm_calls + r.calls
    /\ llm_log' = llm_log \o r.log
    /\ artifacts' = artifacts
           \cup Written(intermediate_dir, r.files)
           \cup (IF saved = {} THEN {} ELSE Saved(intermediate_dir, r.space, saved))
    /\ disk' = DiskAfter(intermediate_dir, disk,
                         IF saved = {} THEN r.space ELSE AfterSave(r.space))

\* the locals of the chunk loop, as the variables hold them
ChunkLoopAcc == StructureAcc(all_sheets, total_confidence, SpaceFor(intermediate_dir, disk))

\* Step 1, from the turn of chunk chunk_no up to its wait (lines 346-365)
StructureTurnBegins(chunk_count, chunk_no, acc) ==
    \E p \in {StructurePrompt(chunk_count, chunk_no, acc)} :
        /\ StageEffects(p, {})
        /\ chunk_num' = chunk_no
        /\ all_sheets' = p.all_sheets
        /\ total_confidence' = p.total_confidence
        /\ UNCHANGED structure
        /\ IF p.write_raised
           THEN Except("write_error")
           ELSE /\ pc' = "awaiting"
                /\ UNCHANGED <<result, stage, visited>>

\* Step 1, from the end of the chunk loop to the next stage (lines 400-407
\* and 228-240)
StructureAnalysisEnds(chunk_count, acc) ==
    \E merged_result \in {MergedResult(chunk_count, acc)} :
        /\ structure' = merged_result
        /\ StageEffects(acc, {File("structure_analysis.json", 0)})
        /\ all_sheets' = acc.all_sheets
        /\ total_confidence' = acc.total_confidence
        /\ IF NoSheetsIdentified(merged_result)
           THEN /\ result' = <<FailureReturn("Failed to analyze structure")>>
                /\ Enter("Failed")
                /\ pc' = "done"
           ELSE /\ Enter("CoverageValidation")
                /\ pc' = "start"
                /\ UNCHANGED result

\* Step 1 begins (lines 224-228, 326-365): the file is read and chunked, and
\* the first chunk's prompt is written; the call of _invoke_llm is awaited
StepStructureAnalysis ==
    /\ stage = "StructureAnalysis"
    /\ pc = "start"
    /\ IF FileRaises(file_state)
       THEN /\ Except("file_error")
            /\ UNCHANGED <<metadata, chunks, structure, total_llm_calls, llm_log,
                           artifacts, disk, chunk_vars>>
       ELSE \E md \in {GetFileMetadata(file_state, workbook)} :
            \E sheet_chunks \in {ChunkSheetsForStructureAnalysis(md, max_chars)} :
            \E acc \in {StructureAcc(<<>>, Rat(0, 1), SpaceFor(intermediate_dir, disk))} :
                /\ metadata' = md
                /\ chunks' = sheet_chunks
                /\ IF sheet_chunks = <<>>
                   THEN /\ StructureAnalysisEnds(0, acc)
                        /\ chunk_num' = 0
                   ELSE StructureTurnBegins(Len(sheet_chunks), 1, acc)
    /\ UNCHANGED <<max_chars, xml_q, uuid_issued, questions, workbook, batches,
                   run_id, file_state, intermediate_dir, coverage, xml_output>>
    /\ UNCHANGED <<run_no, all_xml_parts, batch_num, parser_vars>>

\* Step 1 goes on when the awaited call returns or raises (lines 365-398):
\* the rest of the chunk's turn, then the next chunk's prompt and wait, or
\* the end of the stage
StructureCallReturns ==
    /\ stage = "StructureAnalysis"
    /\ pc = "awaiting"
    /\ \E o \in StructureOutcomes :
       \E a \in {StructureAnswer(Len(chunks), chunk_num, o, ChunkLoopAcc)} :
           IF a.write_raised
           THEN /\ StageEffects(a, {})
                /\ Except("write_error")
                /\ all_sheets' = a.all_sheets
                /\ total_confidence' = a.total_confidence
                /\ UNCHANGED <<structure, chunk_num>>
           ELSE IF chunk_num < Len(chunks)
           THEN StructureTurnBegins(Len(chunks), chunk_num + 1, a)
           ELSE /\ StructureAnalysisEnds(Len(chunks), a)
                /\ UNCHANGED chunk_num
    /\ UNCHANGED <<metadata, max_chars, chunks, xml_q, uuid_issued, questions,
                   workbook, batches, run_id, file_state, intermediate_dir,
                   coverage, xml_output>>
    /\ UNCHANGED <<run_no, all_xml_parts, batch_num, parser_vars>>

\* Step 2 begins (lines 242-244, 434-439): the prompt is written and the
\* call of _invoke_llm is awaited
StepCoverageValidation ==
    /\ stage = "CoverageValidation"
    /\ pc = "start"
    /\ \E p \in {CoveragePrompt(CoverageAcc(SpaceFor(intermediate_dir, disk)))} :
           /\ StageEffects(p, {})
           /\ IF p.write_raised
              THEN Except("write_error")
              ELSE /\ pc' = "awaiting"
                   /\ UNCHANGED <<result, stage, visited>>
    /\ UNCHANGED <<metadata, max_chars, chunks, xml_q, uuid_issued, questions,
                   workbook, structure, batches, run_id, file_state,
                   intermediate_dir, coverage, xml_output>>
    /\ UNCHANGED <<run_no, all_xml_parts, batch_num, parser_vars, chunk_vars>>

\* Step 2 goes on when the awaited call returns or raises (lines 439-456 and
\* 245-251)
CoverageCallReturns ==
    /\ stage = "CoverageValidation"
    /\ pc = "awaiting"
    /\ \E outcome \in CoverageOutcomes :
       \E r \in {CoverageAnswer(outcome, CoverageAcc(SpaceFor(intermediate_dir, disk)))} :
           IF r.write_raised
           THEN /\ StageEffects(r, {})
                /\ Except("write_error")
                /\ UNCHANGED coverage
           ELSE IF r.raised
           THEN /\ StageEffects(r, {})
                /\ Except("llm_error")
                /\ UNCHANGED coverage
           ELSE /\ coverage' = <<r.coverage>>
                /\ StageEffects(r, {File("coverage_validation.json", 0)})
                /\ Enter("Extraction")
                /\ pc' = "start"
                /\ UNCHANGED result
    /\ UNCHANGED <<metadata, max_chars, chunks, xml_q, uuid_issued, questions,
                   workbook, structure, batches, run_id, file_state,
                   intermediate_dir, xml_output>>
    /\ UNCHANGED <<run_no, all_xml_parts, batch_num, parser_vars, chunk_vars>>

\* Step 3, from the turn of batch batch_no up to its wait (lines 470-484)
ExtractionTurnBegins(batch_no, acc) ==
    \E p \in {ExtractionPrompt(batch_no, acc)} :
        /\ StageEffects(p, {})
        /\ batch_num' = batch_no
        /\ all_xml_parts' = p.all_xml_parts
        /\ UNCHANGED xml_output
        /\ IF p.write_raised
           THEN Except("write_error")
           ELSE /\ pc' = "awaiting"
                /\ UNCHANGED <<result, stage, visited>>

\* Step 3, from the end of the batch loop to the next stage (lines 507-517
\* and 255-264)
ExtractionEnds(acc) ==
    \E r \in {ExtractionCombine(acc)} :
    \E combined_xml \in {CombinedXml(r.all_xml_parts)} :
        /\ StageEffects(r, {})
        /\ all_xml_parts' = r.all_xml_parts
        /\ IF r.write_raised
           THEN /\ Except("write_error")
                /\ UNCHANGED xml_output
           ELSE /\ xml_output' = combined_xml
                /\ IF NoExtractionOutput(combined_xml)
                   THEN /\ result' = <<FailureReturn("Failed to extract questions")>>
                        /\ Enter("Failed")
                        /\ pc' = "done"
                   ELSE /\ Enter("Normalization")
                        /\ pc' = "start"
                        /\ UNCHANGED result

\* Step 3 begins (lines 253-255, 458-484): the workbook is loaded and the
\* batches are made (a file openpyxl cannot load raises), and the first
\* batch's prompt is written; the call of _invoke_llm is awaited
StepExtraction ==
    /\ stage = "Extraction"
    /\ pc = "start"
    /\ IF LoadWorkbookRaises(file_state)
       THEN /\ Except("file_error")
            /\ UNCHANGED <<batches, total_llm_calls, llm_log, artifacts, disk,
                           xml_output, all_xml_parts, batch_num>>
       ELSE \E bs \in {ExtractWithContext(workbook, structure.sheets)} :
            \E acc \in {ExtractionAcc(<<>>, SpaceFor(intermediate_dir, disk))} :
                /\ batches' = bs
                /\ IF bs = <<>>
                   THEN /\ ExtractionEnds(acc)
                        /\ batch_num' = 0
                   ELSE ExtractionTurnBegins(1, acc)
    /\ UNCHANGED <<metadata, max_chars, chunks, xml_q, uuid_issued, questions,
                   workbook, structure, run_id, file_state, intermediate_dir, coverage>>
    /\ UNCHANGED <<run_no, parser_vars, chunk_vars>>

\* Step 3 goes on when the awaited call returns or raises (lines 484-505):
\* the rest of the batch's turn, then the next batch's prompt and wait, or
\* the end of the stage
ExtractionCallReturns ==
    /\ stage = "Extraction"
    /\ pc = "awaiting"
    /\ \E o \in ExtractionOutcomes :
       \E a \in {ExtractionAnswer(batches, batch_num, o,
                      ExtractionAcc(all_xml_parts, SpaceFor(intermediate_dir, disk)))} :
           IF a.raised \/ a.write_raised
           THEN /\ StageEffects(a, {})
                /\ Except(IF a.raised THEN "llm_error" ELSE "write_error")
                /\ all_xml_parts' = a.all_xml_parts
                /\ UNCHANGED <<xml_output, batch_num>>
           ELSE IF batch_num < Len(batches)
           THEN ExtractionTurnBegins(batch_num + 1, a)
           ELSE /\ ExtractionEnds(a)
                /\ UNCHANGED batch_num
    /\ UNCHANGED <<metadata, max_chars, chunks, xml_q, uuid_issued, questions,
                   workbook, structure, batches, run_id, file_state,
                   intermediate_dir, coverage>>
    /\ UNCHANGED <<run_no, parser_vars, chunk_vars>>

\* Step 4 and the return (lines 266-305)
StepNormalization ==
    /\ stage = "Normalization"
    /\ pc = "start"
    /\ \E elems \in {QElements(xml_output)} :
       \E qs \in {NormalizeToObjects(elems, uuid_issued)} :
           /\ xml_q' = elems
           /\ questions' = qs
           /\ uuid_issued' = uuid_issued + FirstPassResult(elems, uuid_issued).draws
           /\ artifacts' = artifacts
                  \cup Saved(intermediate_dir, SpaceFor(intermediate_dir, disk),
                             {File("normalized_questions.json", 0)})
           /\ disk' = DiskAfter(intermediate_dir, disk,
                                AfterSave(SpaceFor(intermediate_dir, disk)))
           /\ \E elapsed_ms \in ElapsedPool :
                  result' = <<SuccessReturn(qs, elapsed_ms, total_llm_calls,
                                            structure, coverage[1])>>
    /\ Enter("Done")
    /\ pc' = "done"
    /\ UNCHANGED <<metadata, max_chars, chunks, workbook, structure, batches,
                   run_id, file_state, total_llm_calls, llm_log, intermediate_dir,
                   coverage, xml_output>>
    /\ UNCHANGED <<run_no, all_xml_parts, batch_num, parser_vars, chunk_vars>>

NextPipe ==
    \/ CallExtract
    \/ StepStructureAnalysis
    \/ StructureCallReturns
    \/ StepCoverageValidation
    \/ CoverageCallReturns
    \/ StepExtraction
    \/ ExtractionCallReturns
    \/ StepNormalization

SpecPipe == InitPipe /\ [][NextPipe]_vars

MaxWritesLeft == 3

\* the disk runs short during a run, before a stage or at one of its waits:
\* from here on it has room for n more writes, so the code that runs next
\* finds it full at its first write, between two of its writes, or not
\* before the next wait
DiskFills ==
    /\ stage \in {"StructureAnalysis", "CoverageValidation", "Extraction",
                  "Normalization"}
    /\ disk = NoLimit
    /\ \E n \in 0..MaxWritesLeft : disk' = <<n>>
    /\ UNCHANGED <<pc, metadata, max_chars, chunks, xml_q, uuid_issued, questions,
                   workbook, structure, batches, pipe_vars, run_no, all_xml_parts,
                   batch_num, parser_vars, chunk_vars>>

NextDisk == NextPipe \/ DiskFills

\* runs of extract on a disk that may fill up
SpecDisk == InitPipe /\ [][NextDisk]_vars


-----------------------------------------------------------------------------
(* Properties of the stage orchestrator                                    *)

StageOrder ==
    <<"StructureAnalysis", "CoverageValidation", "Extraction", "Normalization", "Done">>

IsPrefix(s, t) == Len(s) <= Len(t) /\ s = SubSeq(t, 1, Len(s))

\* the stages before Failed, and the stage Failed was entered from
BeforeFailed == SubSeq(visited, 1, Len(visited) - 1)
FailedFrom == visited[Len(visited) - 1]

\* the stages entered so far follow the fixed order, Failed coming last if
\* it comes at all, and a run that is Done has skipped none
VisitedInOrder ==
    /\ IF stage = "Failed"
       THEN /\ Len(visited) >= 2
            /\ visited[Len(visited)] = "Failed"
            /\ IsPrefix(BeforeFailed, StageOrder)
            /\ FailedFrom # "Done"
       ELSE IsPrefix(visited, StageOrder)
    /\ stage = "Done" => visited = StageOrder

LastCallRaisedIn(stage_name) ==
    /\ llm_log # <<>>
    /\ llm_log[Len(llm_log)].stage = stage_name
    /\ llm_log[Len(llm_log)].outcome.raises

WriteTextRaised == intermediate_dir # <<>> /\ disk = <<0>>

FailedOnCsvFile ==
    /\ stage = "Failed"
    /\ FailedFrom = "Extraction"
    /\ file_state = "csv"
    /\ \A i \in 1..Len(llm_log) : ~llm_log[i].outcome.raises
    /\ ~WriteTextRaised
FailedOnFullDisk ==
    /\ stage = "Failed"
    /\ WriteTextRaised
    /\ ~FileRaises(file_state) /\ ~LoadWorkbookRaises(file_state)
    /\ \A i \in 1..Len(llm_log) : ~llm_log[i].outcome.raises


LlmCallsOf(stage_name) ==
    {i \in 1..Len(llm_log) : llm_log[i].stage = stage_name}

\* structure analysis has run to its end and identified no sheet
NoSheetsFound ==
    /\ Len(visited) >= 2
    /\ ~FileRaises(file_state)
    /\ structure.sheets = <<>>

\* C12: when structure analysis identifies no sheets (the file has none, or
\* every chunk's call failed, was empty or gave no sheet record), the run ends
\* with success=false, one error message and zero questions, and no
\* coverage-validation or extraction LLM call is issued.
C12_NoSheetsIsFatal ==
    NoSheetsFound =>
        /\ stage = "Failed" /\ pc = "done"
        /\ Len(result) = 1
        /\ ~result[1].success
        /\ result[1].error = "Failed to analyze structure"
        /\ result[1].questions = <<>>
        /\ LlmCallsOf("CoverageValidation") = {}
        /\ LlmCallsOf("Extraction") = {}

\* a file with a sheet whose structure response names no sheet record
C12_Witness ==
    /\ NoSheetsFound
    /\ file_state = "ok"
    /\ LlmCallsOf("StructureAnalysis") # {}
    /\ ~llm_log[1].outcome.raises /\ ~IsBlank(llm_log[1].outcome.text)
    /\ stage = "Failed"

\* the extraction stage has run to its end and no questions block came out of
\* it: no batch was produced, or no response holds an opening questions tag
ExtractionEnded ==
    /\ "Extraction" \in Range(visited)
    /\ stage # "Extraction"
    /\ ~LastCallRaisedIn("Extraction")
NoQuestionsBlock ==
    \/ batches = <<>>
    \/ \A i \in LlmCallsOf("Extraction") :
          \A k \in 1..Len(llm_log[i].outcome.text) :
              llm_log[i].outcome.text[k].tag # "open"

\* C13: when no questions block can be parsed from the extraction stage's
\* combined output (no batch was produced, or no batch response contains a
\* questions block), the run is aborted with success=false, one error message
\* and zero questions.
C13_NoExtractionOutputIsFatal ==
    ExtractionEnded /\ NoQuestionsBlock =>
        /\ stage = "Failed"
        /\ Len(result) = 1
        /\ ~result[1].success
        /\ result[1].error = "Failed to extract questions"
        /\ result[1].questions = <<>>

\* the coverage output is empty, white space only or holds no root element
CoverageOutputUnusable(text) ==
    IsBlank(text) \/ \A k \in 1..Len(text) : text[k].tag # "open"

\* C14: when the coverage-validation LLM output is empty, whitespace-only or
\* cannot be parsed, the stage yields the default record (is_complete=true,
\* confidence=0.5, no missing elements, no suggestions) and the pipeline
\* proceeds to Extraction.
C14_CoverageFailuresAreNotFatal ==
    \A i \in LlmCallsOf("CoverageValidation") :
        (~llm_log[i].outcome.raises /\ CoverageOutputUnusable(llm_log[i].outcome.text)) =>
            /\ coverage = << [is_complete |-> TRUE, missing_elements |-> <<>>,
                              suggestions |-> <<>>, confidence |-> Rat(50, 1)] >>
            /\ Len(visited) >= 3 /\ visited[3] = "Extraction"

\* a coverage response of prose only, and the run went on to its end
C14_Witness ==
    /\ stage = "Done"
    /\ \E i \in LlmCallsOf("CoverageValidation") :
          /\ ~llm_log[i].outcome.raises
          /\ ~IsBlank(llm_log[i].outcome.text)
          /\ CoverageOutputUnusable(llm_log[i].outcome.text)
    /\ coverage = <<CoverageDefault>>


\* the run ended in extract's except branch: the file could not be read or
\* loaded, or an LLM call of the coverage or the extraction stage raised
EndedByException ==
    /\ stage = "Failed"
    /\ \/ FileRaises(file_state)
       \/ LoadWorkbookRaises(file_state) /\ FailedFrom = "Extraction"
       \/ LastCallRaisedIn("CoverageValidation")
       \/ LastCallRaisedIn("Extraction")

Unset(field) == field = <<>>

\* C16 as stated: extract never raises; an exception inside a stage (file
\* read error, LLM fault in coverage validation or in an extraction batch)
\* gives a result with success=false, an error message, zero questions and
\* zero-valued metrics.
C16_FailureResultHasZeroMetrics ==
    /\ pc = "done" => Len(result) = 1
    /\ EndedByException =>
          /\ ~result[1].success
          /\ result[1].error \in {"file_error", "llm_error"}
          /\ result[1].questions = <<>>
          /\ Len(result[1].metrics) = 1
          /\ result[1].metrics[1].extraction_count = 0
          /\ result[1].metrics[1].total_time_ms = 0
          /\ Unset(result[1].metrics[1].total_llm_calls)
          /\ Unset(result[1].metrics[1].structure_confidence)
          /\ Unset(result[1].metrics[1].coverage_confidence)
          /\ Unset(result[1].metrics[1].show_dependencies_count)
          /\ Unset(result[1].metrics[1].skip_dependencies_count)

\* C16 amended: as above, but the metrics of the failure result hold an
\* extraction count of zero and the time elapsed since the call as total
\* time, every other metric being unset.
C16_FailureResultHasElapsedTime ==
    /\ pc = "done" => Len(result) = 1
    /\ EndedByException =>
          /\ ~result[1].success
          /\ result[1].error \in {"file_error", "llm_error"}
          /\ result[1].questions = <<>>
          /\ Len(result[1].metrics) = 1
          /\ result[1].metrics[1].extraction_count = 0
          /\ result[1].metrics[1].total_time_ms \in ElapsedPool
          /\ Unset(result[1].metrics[1].total_llm_calls)
          /\ Unset(result[1].metrics[1].structure_confidence)
          /\ Unset(result[1].metrics[1].coverage_confidence)
          /\ Unset(result[1].metrics[1].show_dependencies_count)
          /\ Unset(result[1].metrics[1].skip_dependencies_count)

\* the second extraction batch raised after a first one was answered, and
\* time has passed
C16_Witness ==
    /\ EndedByException
    /\ LastCallRaisedIn("Extraction")
    /\ Cardinality(LlmCallsOf("Extraction")) = 2
    /\ result[1].metrics[1].total_time_ms > 0

\* the stage-boundary files of a completed run
BoundaryFiles ==
    {"structure_analysis.json", "coverage_validation.json",
     "step3_question_extraction_combined.xml", "normalized_questions.json"}

\* C20: a call of extract without a run identifier writes no intermediate
\* artifact file, and a call with one writes them to that run's directory at
\* every stage boundary.  (That the returned questions and success flag are
\* the same in both cases compares two runs and is not part of the formula.)
C20_ArtifactsAreOptional ==
    /\ ~Truthy(run_id) => artifacts = {}
    /\ Truthy(run_id) =>
          /\ \A a \in artifacts : a.dir = run_id
          /\ stage = "Done" =>
                \A name \in BoundaryFiles : \E a \in artifacts : a.file = name


\* The well-formed equivalent of a response that holds an opening root tag:
\* the opening tag, what follows it up to the last closing tag after it (or
\* up to the end when none follows), and the closing tag.
WellFormed(text) ==
    LET first == FindOpen(text)
        closes == {i \in (first + 1)..Len(text) : text[i].tag = "close"}
        last == IF closes = {} THEN Len(text) ELSE SetMax(closes) - 1
    IN  <<Open>> \o SubSeq(text, first + 1, last) \o <<Close>>

Answered(i) == ~llm_log[i].outcome.raises /\ FindOpen(llm_log[i].outcome.text) # 0

QTokensOf(text) == Len(SelectSeq(text, IsQToken))

\* C18: a structure-analysis or coverage response whose closing root tag is
\* missing is parsed as if the closing tag were present, text before the
\* first opening root tag and after the last closing root tag is ignored, and
\* an extraction response missing its closing questions tag yields as many
\* parsed questions as its well-formed equivalent.
C18_MalformedTextIsTolerated ==
    /\ \A i \in LlmCallsOf("StructureAnalysis") :
          Answered(i) =>
              structure.sheets = ParseStructureXml(WellFormed(llm_log[i].outcome.text)).sheets
    /\ \A i \in LlmCallsOf("CoverageValidation") :
          Answered(i) =>
              coverage = <<ParseCoverageXml(WellFormed(llm_log[i].outcome.text))>>
    /\ stage = "Done" =>
          Len(xml_q) = SumSeq([i \in 1..Len(llm_log) |->
                           IF llm_log[i].stage = "Extraction"
                           THEN QTokensOf(llm_log[i].outcome.text) ELSE 0])


-----------------------------------------------------------------------------
(* _analyze_structure on files of several chunks                           *)

\* a sheet whose one header is 24000 characters long: its estimate alone
\* exceeds MAX_INPUT_CHARS less the prompt overhead
SheetHuge ==
    [name |-> <<"H">>,
     columns |-> << Rep("c", 24000) >>,
     row_count |-> 30,
     sample_data |-> [i \in 1..30 |-> RowDict(<< Rep("c", 24000) >>, << <<"v">> >>)]]

ChunkedFiles ==
    { <<SheetSmall>>, <<SheetHuge>>,
      <<SheetSmall, SheetHuge>>, <<SheetHuge, SheetMedium>>,
      <<SheetSmall, SheetMedium, SheetHuge>>,
      <<SheetSmall, SheetHuge, SheetMedium>>,
      <<SheetHuge, SheetSmall, SheetMedium>> }

SheetTagOf(sheet_name, confidence) ==
    SheetTag(sheet_name, AttrOne, AttrTwo, <<confidence>>, <<ColumnsTag(NameQ, NameA)>>)

ChunkTexts ==
    { <<>>, <<Junk>>,
      <<Open, SheetTagOf(SheetSmall.name, 90), Close>>,
      <<Open, SheetTagOf(SheetHuge.name, 60), SheetTagOf(SheetMedium.name, 80)>> }

ChunkOutcomes == {Raises} \cup {Returns(t) : t \in ChunkTexts}

InitStruct ==
    /\ pc = "start"
    /\ metadata \in ChunkedFiles
    /\ max_chars = MAX_INPUT_CHARS
    /\ chunks = <<>>
    /\ structure = NoStructure
    /\ intermediate_dir \in {<<>>, <<RunIdR1>>}
    /\ workbook = None /\ batches = <<>>
    /\ xml_q = <<>> /\ uuid_issued = 0 /\ questions = <<>>
    /\ run_id = None /\ file_state = "ok" /\ stage = "Idle" /\ visited = <<>>
    /\ total_llm_calls = 0 /\ llm_log = <<>> /\ artifacts = {}
    /\ coverage = <<>> /\ xml_output = <<>> /\ result = <<>>
    /\ disk = <<>> /\ run_no = 1 /\ all_xml_parts = <<>> /\ batch_num = 0
    /\ column_mappings = <<>> /\ total_count = 0
    /\ chunk_num = 0 /\ all_sheets = <<>> /\ total_confidence = [num |-> 0, den |-> 1]

\* _analyze_structure alone, from the turn of chunk chunk_no up to its wait
AnalyzeStructureTurn(chunk_count, chunk_no, acc) ==
    \E p \in {StructurePrompt(chunk_count, chunk_no, acc)} :
        /\ StageEffects(p, {})
        /\ chunk_num' = chunk_no
        /\ all_sheets' = p.all_sheets
        /\ total_confidence' = p.total_confidence
        /\ pc' = IF p.write_raised THEN "raised" ELSE "awaiting"
        /\ UNCHANGED structure

\* _analyze_structure alone returns merged_result (lines 400-407)
AnalyzeStructureReturns(chunk_count, acc) ==
    /\ structure' = MergedResult(chunk_count, acc)
    /\ StageEffects(acc, {})
    /\ all_sheets' = acc.all_sheets
    /\ total_confidence' = acc.total_confidence
    /\ pc' = "done"

\* _analyze_structure is called (lines 326-365): up to the first wait
AnalyzeStructureCall ==
    /\ stage = "Idle"
    /\ pc = "start"
    /\ \E sheet_chunks \in {ChunkSheetsForStructureAnalysis(metadata, max_chars)} :
       \E acc \in {StructureAcc(<<>>, Rat(0, 1), SpaceFor(intermediate_dir, disk))} :
           /\ chunks' = sheet_chunks
           /\ IF sheet_chunks = <<>>
              THEN /\ AnalyzeStructureReturns(0, acc)
                   /\ chunk_num' = 0
              ELSE AnalyzeStructureTurn(Len(sheet_chunks), 1, acc)
    /\ UNCHANGED <<metadata, max_chars, xml_q, uuid_issued, questions, workbook,
                   batches, run_id, file_state, stage, visited, intermediate_dir,
                   coverage, xml_output, result>>
    /\ UNCHANGED <<run_no, all_xml_parts, batch_num, parser_vars>>

\* the awaited call of a chunk returns or raises (lines 365-407): the rest
\* of the turn, then the next chunk's prompt and wait, or the return
AnalyzeStructureCallReturns ==
    /\ stage = "Idle"
    /\ pc = "awaiting"
    /\ \E o \in ChunkOutcomes :
       \E a \in {StructureAnswer(Len(chunks), chunk_num, o, ChunkLoopAcc)} :
           IF a.write_raised
           THEN /\ StageEffects(a, {})
                /\ all_sheets' = a.all_sheets
                /\ total_confidence' = a.total_confidence
                /\ pc' = "raised"
                /\ UNCHANGED <<structure, chunk_num>>
           ELSE IF chunk_num < Len(chunks)
           THEN AnalyzeStructureTurn(Len(chunks), chunk_num + 1, a)
           ELSE /\ AnalyzeStructureReturns(Len(chunks), a)
                /\ UNCHANGED chunk_num
    /\ UNCHANGED <<metadata, max_chars, chunks, xml_q, uuid_issued, questions,
                   workbook, batches, run_id, file_state, stage, visited,
                   intermediate_dir, coverage, xml_output, result>>
    /\ UNCHANGED <<run_no, all_xml_parts, batch_num, parser_vars>>

NextStruct == AnalyzeStructureCall \/ AnalyzeStructureCallReturns

SpecStruct == InitStruct /\ [][NextStruct]_vars

\* the chunks whose response was parsed and merged
Succeeded(i) == ~llm_log[i].outcome.raises /\ ~IsBlank(llm_log[i].outcome.text)
SucceededChunks == {i \in 1..Len(llm_log) : Succeeded(i)}

\* the sheet records and the confidence a chunk's response gives
SheetsOfChunk(i) ==
    IF Succeeded(i) THEN ParseStructureXml(llm_log[i].outcome.text).sheets ELSE <<>>
ConfidenceOfChunk(i) ==
    IF Succeeded(i) THEN ParseStructureXml(llm_log[i].outcome.text).confidence
    ELSE Rat(0, 1)

RECURSIVE RatSum(_)
RatSum(rs) == IF rs = <<>> THEN Rat(0, 1) ELSE RatAdd(Head(rs), RatSum(Tail(rs)))

\* C15: when the LLM call for one chunk fails, that chunk's sheets are skipped
\* and the remaining chunks are still processed in order, their sheet records
\* concatenated in chunk order; the overall structure confidence is the
\* average of the confidences of the chunks that did succeed.
C15_ConfidenceAveragesSucceededChunks ==
    pc = "done" =>
        /\ Len(llm_log) = Len(chunks)
        /\ \A i \in 1..Len(llm_log) : llm_log[i].n = i
        /\ structure.sheets = Flatten([i \in 1..Len(llm_log) |-> SheetsOfChunk(i)])
        /\ structure.confidence =
              IF SucceededChunks = {} THEN Rat(0, 1)
              ELSE RatDiv(RatSum([i \in 1..Len(llm_log) |-> ConfidenceOfChunk(i)]),
                          Cardinality(SucceededChunks))

-----------------------------------------------------------------------------
(* Bounds of the row batcher                                               *)

\* the sheets of the structure that need more batches than a sheet may have
TruncatedSheets ==
    {k \in SheetsPresent :
        /\ BatchesOf(structure.sheets[k]) # {}
        /\ NumBatches(workbook.max_row, structure.sheets[k].data_start_row)
               > MAX_BATCHES_PER_SHEET}

\* the batches a run of the batch loop appended: the batch_num of each is one
\* more than that of the batch before it, or 1 at the start of a sheet
BatchNumbersCount ==
    \A i \in 1..Len(batches) :
        \/ batches[i].batch_num = 1
        \/ /\ i > 1
           /\ batches[i].batch_num = batches[i - 1].batch_num + 1
           /\ batches[i].sheet_name = batches[i - 1].sheet_name
           /\ batches[i].data_start_row
                  = batches[i - 1].data_start_row + MAX_ROWS_PER_BATCH

\* C19: every batch renders at most MAX_ROWS_PER_BATCH data rows; the batches
\* of a sheet are numbered from 1 without a gap and none is numbered above
\* MAX_BATCHES_PER_SHEET, so that no sheet yields more; a sheet that needs
\* more batches is cut after batch MAX_BATCHES_PER_SHEET and the call still
\* returns; and the batch generation ends, for every sheet and every
\* data-start row.
C19_BatchBounds ==
    /\ [](pc = "done" =>
            /\ \A i \in 1..Len(batches) :
                   /\ Cardinality(batches[i].markdown.rows) <= MAX_ROWS_PER_BATCH
                   /\ batches[i].batch_num <= MAX_BATCHES_PER_SHEET
            /\ BatchNumbersCount
            /\ TruncatedSheets # {} =>
                   \E i \in 1..Len(batches) :
                       /\ batches[i].batch_num = MAX_BATCHES_PER_SHEET
                       /\ batches[i].total_batches > MAX_BATCHES_PER_SHEET
                       /\ (i = Len(batches) \/ batches[i + 1].batch_num = 1))
    /\ <>(pc = "done")

\* a sheet of 2105 rows is cut after its twentieth batch of 100 rows
C19_Witness ==
    /\ pc = "done"
    /\ TruncatedSheets # {}
    /\ Len(batches) = MAX_BATCHES_PER_SHEET
    /\ batches[MAX_BATCHES_PER_SHEET].total_batches > MAX_BATCHES_PER_SHEET
    /\ Cardinality(batches[MAX_BATCHES_PER_SHEET].markdown.rows) = MAX_ROWS_PER_BATCH
    /\ SetMax(batches[MAX_BATCHES_PER_SHEET].markdown.rows) < workbook.max_row

-----------------------------------------------------------------------------
(* Continuation rows in the row batcher                                    *)

\* the batch renders the question column first and the answer column second
RendersQuestionAndAnswer(batch) ==
    /\ Len(batch.markdown.headers) >= 2
    /\ batch.markdown.headers[1] = batch.columns_info.question_column
    /\ batch.markdown.headers[2] = batch.columns_info.answer_column

\* a question row of the batch's sheet: text in the question cell
QuestionRow(batch, r) ==
    /\ RendersQuestionAndAnswer(batch)
    /\ CellHasText(workbook, r, batch.markdown.col_indices[1])

\* an answer-only row: no text in the question cell, text in the answer cell
AnswerOnlyRow(batch, r) ==
    /\ RendersQuestionAndAnswer(batch)
    /\ ~CellHasText(workbook, r, batch.markdown.col_indices[1])
    /\ CellHasText(workbook, r, batch.markdown.col_indices[2])

\* a row without text in any cell of the sheet
FullyEmptyRow(r) ==
    \A c \in 0..(Len(workbook.row1) - 1) : ~CellHasText(workbook, r, c)

\* row r is an answer-only row that follows the question row q of the batch
\* after gap fully empty rows
ContinuationOf(batch, q, r, gap) ==
    /\ q \in batch.markdown.rows
    /\ QuestionRow(batch, q)
    /\ r = q + gap + 1
    /\ r <= workbook.max_row
    /\ \A e \in (q + 1)..(r - 1) : FullyEmptyRow(e)
    /\ AnswerOnlyRow(batch, r)

\* C17 as stated, for the answer-only row that follows its question row
\* directly (a gap within every threshold): the batcher attaches the answer
\* to the question and renders no row of its own for it.
C17_ContinuationRowsAreMerged ==
    pc = "done" =>
        \A i \in 1..Len(batches) : \A q \in batches[i].markdown.rows :
            ContinuationOf(batches[i], q, q + 1, 0) =>
                \A j \in 1..Len(batches) : (q + 1) \notin batches[j].markdown.rows

\* (The answer-only row is rendered as a row of its own next to its question
\* row, or apart from it: the question row ends a batch of
\* MAX_ROWS_PER_BATCH rows and its answer-only row is in the next batch.)
ContinuationRowInNextBatch ==
    /\ pc = "done"
    /\ \E i \in 1..Len(batches) : \E q \in batches[i].markdown.rows :
           /\ ContinuationOf(batches[i], q, q + 1, 0)
           /\ (q + 1) \notin batches[i].markdown.rows
           /\ i < Len(batches)
           /\ batches[i + 1].sheet_name = batches[i].sheet_name
           /\ (q + 1) \in batches[i + 1].markdown.rows
           /\ q \notin batches[i + 1].markdown.rows

-----------------------------------------------------------------------------
(* The coverage response in the format of the stage's prompt               *)

\* the response is a coverage_validation block as the prompt of the stage
\* shows it: the root tag carries is_complete and confidence
PrescribedFormat(text) ==
    /\ Len(text) >= 2
    /\ text[1].tag = "open_attr"
    /\ text[Len(text)].tag = "close"

\* C27: a coverage response in the prescribed format (root tag with the
\* attributes is_complete and confidence) is parsed to a record that holds the
\* is_complete and confidence values of the block, not the defaults.
C27_PrescribedFormatIsParsed ==
    \A i \in LlmCallsOf("CoverageValidation") :
        (~llm_log[i].outcome.raises /\ PrescribedFormat(llm_log[i].outcome.text)) =>
            /\ Len(coverage) = 1
            /\ coverage[1].is_complete = llm_log[i].outcome.text[1].is_complete
            /\ coverage[1].confidence
                   = Rat(llm_log[i].outcome.text[1].confidence[1], 1)

-----------------------------------------------------------------------------
(* The resolved display names of a batch                                   *)

Roles == {"question_column", "answer_column", "answer_options_column"}

\* the column position resolved for a role name of the batch: the index the
\* batcher resolves the name to in the metadata columns, or, when no name of
\* the batch resolves there, the index the table generator finds by name
RolePosition(b, name) ==
    LET cols == SheetColMap(workbook, b.sheet_name)
        pre == UsePreResolved(ColIndicesToInclude(cols, b.columns, 1, <<>>), 1,
                              Len(HeaderListOf(b)), <<>>)
    IN  IF pre # <<>> THEN PreResolvedIndex(cols, name)
        ELSE NameLookup(HeaderListOf(b), name)

\* the role is named by the structure analysis and its name resolves to a
\* column of the header row
RoleResolved(b, role) ==
    /\ Truthy(b.columns_info[role])
    /\ RolePosition(b, b.columns_info[role]) # NoInt
    /\ RolePosition(b, b.columns_info[role])[1] < Len(HeaderListOf(b))

\* the header text at the position resolved for the role
HeaderTextOf(b, role) ==
    Strip(HeaderListOf(b)[RolePosition(b, b.columns_info[role])[1] + 1])

\* C22: for each of the roles question, answer and answer-options of a batch,
\* the resolved display name is the header text of the row-accurate header
\* row at the column position resolved for that role, also when the sheet has
\* an answer column and an answer-options column.
C22_ResolvedNamesAreTheRoleHeaders ==
    pc = "done" =>
        \A i \in 1..Len(batches) : \A role \in Roles :
            RoleResolved(batches[i], role) =>
                batches[i].resolved_columns_info[role] = HeaderTextOf(batches[i], role)

\* the same, for the batches of a sheet that has no answer-options column or
\* no answer column, and whose role names all resolve to distinct columns
OneAnswerRole(b) ==
    /\ ~(Truthy(b.columns_info.answer_column)
           /\ Truthy(b.columns_info.answer_options_column))
    /\ \A role \in Roles : Truthy(b.columns_info[role]) => RoleResolved(b, role)
    /\ Len(b.markdown.col_indices) = Len(b.columns)
    /\ \A k \in 1..Len(b.markdown.headers) : Strip(b.markdown.headers[k]) # <<>>

ResolvedNamesWithOneAnswerRole ==
    pc = "done" =>
        \A i \in 1..Len(batches) : \A role \in Roles :
            (OneAnswerRole(batches[i]) /\ RoleResolved(batches[i], role)) =>
                batches[i].resolved_columns_info[role] = HeaderTextOf(batches[i], role)

\* the swap: both answer roles resolve, and each display name is the header
\* of the other role
AnswerRolesSwapped ==
    /\ pc = "done"
    /\ \E i \in 1..Len(batches) :
          /\ \A role \in Roles : RoleResolved(batches[i], role)
          /\ batches[i].resolved_columns_info.answer_column
                 = HeaderTextOf(batches[i], "answer_options_column")
          /\ batches[i].resolved_columns_info.answer_options_column
                 = HeaderTextOf(batches[i], "answer_column")
          /\ HeaderTextOf(batches[i], "answer_column")
                 # HeaderTextOf(batches[i], "answer_options_column")

-----------------------------------------------------------------------------
(* The dependency lists of the normalised questions                        *)

\* the depends_on entries declared inside the q element of the j-th question
DeclaredDeps(j) ==
    IF TextElements[j].has_dependencies THEN TextElements[j].dependencies ELSE <<>>

\* the k-th dependency of the j-th question is the k-th declared entry: its
\* condition kind and action are the declared ones (or their defaults), and
\* its target is the declared locator, resolved or kept
EntryMatches(j, k) ==
    LET dep == questions[j].dependencies[k]
        d == DeclaredDeps(j)[k]
    IN  /\ dep.condition_type = (IF d.condition_type = NoAttr THEN "equals"
                                 ELSE d.condition_type)
        /\ dep.dependency_action = (IF d.action = NoAttr THEN "show" ELSE d.action)
        /\ \/ dep.depends_on_question_id
                  = LookupKey(QuestionSheet(TextElements[j]), RawLocator(j, k))
           \/ \E i \in Matches(j, k) :
                  dep.depends_on_question_id = questions[i].question_id

\* the j-th question carries its declared entries, in number and order
Aligned(j) ==
    /\ Len(questions[j].dependencies) = Len(DeclaredDeps(j))
    /\ \A k \in 1..Len(DeclaredDeps(j)) : EntryMatches(j, k)

\* int() raised on the row attribute of a q element: the first pass stopped
\* and the second pass did not run
FirstPassFailed == \E i \in 1..Len(TextElements) : RowRaises(TextElements[i])

\* a declared entry of the j-th question has an action or a condition kind
\* that QuestionDependency refuses
DeclaresInvalid(j) ==
    \E k \in 1..Len(DeclaredDeps(j)) :
        DependencyRaises(RawDep(DeclaredDeps(j)[k], QuestionSheet(TextElements[j])))

\* C29 as stated: each question's dependency list is exactly the depends_on
\* entries declared inside its q element, in number and order, also when
\* earlier q elements were skipped for lacking a text; a question that
\* declares none has no list.
C29_DependenciesAligned ==
    pc = "done" =>
        \A j \in 1..Len(questions) :
            IF DeclaredDeps(j) = <<>>
            THEN questions[j].dependencies = NoDependencies
            ELSE Aligned(j)

\* C29, amended: a dependency list, where a question has one, is exactly the
\* entries its q element declares, in number and order, also when earlier q
\* elements were skipped.  A question has no list if it declares no entry, if
\* a row attribute of the input is no integer (no question has a list then),
\* or if it or a question before it declares an entry with a refused action
\* or condition kind; otherwise it has its list.
C29_AttachedListsAreAligned ==
    pc = "done" =>
        \A j \in 1..Len(questions) :
            /\ questions[j].dependencies # NoDependencies => Aligned(j)
            /\ questions[j].dependencies = NoDependencies <=>
                   \/ DeclaredDeps(j) = <<>>
                   \/ FirstPassFailed
                   \/ \E i \in 1..j : DeclaresInvalid(i)

\* the first q element has no text, and the question made from the second
\* carries its two declared entries
C29_Witness ==
    /\ pc = "done"
    /\ Len(xml_q) >= 2
    /\ ~xml_q[1].has_text
    /\ Len(questions) >= 1
    /\ Len(DeclaredDeps(1)) = 2
    /\ Len(questions[1].dependencies) = 2
    /\ Aligned(1)

-----------------------------------------------------------------------------
(* A normalisation that fails part-way                                     *)

\* the number of questions created before the failure: the q elements with a
\* text that precede the first one whose row is no integer, or all of them
\* when the failure is in the second pass or there is none
CreatedBeforeFailure ==
    IF FirstPassFailed
    THEN SetMin({i \in 1..Len(TextElements) : RowRaises(TextElements[i])}) - 1
    ELSE Len(TextElements)

\* processing failed part-way: in the first pass, or in the second one
NormalizationFailed ==
    \/ FirstPassFailed
    \/ \E j \in 1..Len(TextElements) : DeclaresInvalid(j)

\* C28: _normalize_to_objects never raises: when processing fails part-way
\* (a row attribute that is no integer, a dependency with a refused action
\* or condition kind) it returns the questions created before the failure,
\* in encounter order, and the run reports success with that list.
C28_PartialNormalizationIsReturned ==
    (stage = "Done" /\ NormalizationFailed) =>
        /\ Len(questions) = CreatedBeforeFailure
        /\ \A j \in 1..Len(questions) :
               /\ questions[j].row_index = RowIndex(TextElements[j])
               /\ questions[j].sheet_name = TextElements[j].sheet
        /\ \A i, j \in 1..Len(questions) :
               i # j => questions[i].question_id # questions[j].question_id
        /\ Len(result) = 1
        /\ result[1].success
        /\ result[1].error = <<>>
        /\ result[1].questions = questions
        /\ result[1].metrics[1].extraction_count = Len(questions)

\* the second of three q elements has a row that is no integer: the run
\* succeeds with the first question alone
C28_Witness ==
    /\ stage = "Done"
    /\ FirstPassFailed
    /\ Len(TextElements) >= 3
    /\ Len(questions) = 1
    /\ result[1].success
    /\ result[1].questions = questions

-----------------------------------------------------------------------------
(* The coverage stage is advisory                                          *)

\* the coverage call of the run returned (whatever it returned)
CoverageReturned ==
    \E i \in LlmCallsOf("CoverageValidation") : ~llm_log[i].outcome.raises

\* the outcomes of the extraction calls of the run, in call order
ExtractionCalls ==
    SelectSeq(llm_log, LAMBDA c : c.stage = "Extraction")

\* what the run yields by its structure analysis and its extraction
\* responses alone, with the default coverage record in place of the one the
\* coverage stage returned: the batches (none for a file openpyxl does not
\* load), and for a run whose extraction calls all returned the combined
\* output and the questions
BatchesByStructure ==
    IF LoadWorkbookRaises(file_state) THEN <<>>
    ELSE ExtractWithContext(workbook, structure.sheets)
QuestionsByExtraction ==
    NormalizeToObjects(
        QElements(ExtractQuestions(BatchesByStructure,
                      [k \in 1..Len(ExtractionCalls) |-> ExtractionCalls[k].outcome],
                      NoLimit).combined_xml), 0)

\* C25: the coverage stage is no gate.  Whatever the coverage call returns,
\* the run goes on to Extraction; the batches it issues are those of the
\* structure analysis; it succeeds exactly if the workbook loads and no
\* extraction call raises; and its questions are those of the extraction
\* responses.  Of the result only the coverage confidence is taken from the
\* coverage record.
C25_CoverageIsAdvisory ==
    CoverageReturned =>
        /\ Len(visited) >= 3 /\ visited[3] = "Extraction"
        /\ stage \in {"Normalization", "Done", "Failed"} =>
               /\ batches = BatchesByStructure
               /\ \A k \in 1..Len(ExtractionCalls) : ExtractionCalls[k].n = k
        /\ stage = "Failed" =>
               /\ LoadWorkbookRaises(file_state) \/ LastCallRaisedIn("Extraction")
               /\ ~result[1].success
        /\ stage = "Done" =>
               /\ ~LoadWorkbookRaises(file_state)
               /\ Len(ExtractionCalls) = Len(batches)
               /\ \A k \in 1..Len(ExtractionCalls) : ~ExtractionCalls[k].outcome.raises
               /\ result[1].success
               /\ result[1].questions = QuestionsByExtraction
               /\ \E elapsed_ms \in ElapsedPool :
                      result[1] = [SuccessReturn(QuestionsByExtraction, elapsed_ms,
                                                 total_llm_calls, structure,
                                                 CoverageDefault)
                                      EXCEPT !.metrics[1].coverage_confidence =
                                                 <<coverage[1].confidence>>]

\* a coverage response that reports a missing element, and the run went on
\* to questions all the same
C25_Witness ==
    /\ stage = "Done"
    /\ coverage[1].missing_elements # <<>>
    /\ result[1].success
    /\ Len(result[1].questions) >= 2
    /\ Len(batches) = 2

-----------------------------------------------------------------------------
(* Runs of extract on a disk that fills up                                 *)

\* the run with every write succeeding fails as well: the file cannot be
\* read or loaded, no sheet was identified, or an LLM call of the coverage or
\* the extraction stage raised
FailsWithWritesSucceeding ==
    \/ FileRaises(file_state)
    \/ LoadWorkbookRaises(file_state)
    \/ NoSheetsFound
    \/ LastCallRaisedIn("CoverageValidation")
    \/ LastCallRaisedIn("Extraction")

\* C26: a failure while writing an intermediate artifact (a prompt, a raw
\* response, a parsed intermediate structure) does not change the outcome of
\* the run: a run on a disk that has filled up fails only where the run whose
\* writes succeed fails, and a run that reaches the normaliser returns its
\* questions with success.
C26_WriteFailuresDoNotChangeTheOutcome ==
    /\ (stage = "Failed" /\ disk = <<0>>) => FailsWithWritesSucceeding
    /\ (stage = "Done" /\ disk = <<0>>) =>
           /\ result[1].success
           /\ result[1].questions = questions

\* the write of normalized_questions.json fails and the run succeeds all the
\* same: the one write that is guarded
GuardedWriteFailureIsHarmless ==
    /\ stage = "Done"
    /\ disk = <<0>>
    /\ result[1].success
    /\ Len(result[1].questions) >= 1
    /\ \A f \in artifacts : f.file # "normalized_questions.json"

-----------------------------------------------------------------------------
(* Two calls of extract on one service instance                            *)

MaxRuns == 2

\* one file, one run identifier: the instance is what the runs share
InitRuns ==
    /\ InitPipe
    /\ file_state = "ok"
    /\ run_id = RunIdR1
    /\ workbook = Worksheet(HeaderQAO, DataCells, 3, NoSparse)

\* extract is called again on the same instance, after the previous call has
\* returned (lines 211-222).  The locals of extract start afresh; what
\* __init__ alone sets (self.total_llm_calls, line 71) is not set again, and
\* the files written and the uuid4 values drawn stay as they are.
CallExtractAgain ==
    /\ stage \in {"Done", "Failed"}
    /\ run_no < MaxRuns
    /\ run_no' = run_no + 1
    /\ \E now \in NowPool :
           intermediate_dir' = IntermediateDirOf(LocalRunId(run_id, now))
    /\ stage' = "StructureAnalysis"
    /\ visited' = <<"StructureAnalysis">>
    /\ pc' = "start"
    /\ metadata' = <<>> /\ chunks' = <<>>
    /\ structure' = NoStructure /\ batches' = <<>>
    /\ xml_q' = <<>> /\ questions' = <<>>
    /\ llm_log' = <<>>
    /\ coverage' = <<>> /\ xml_output' = <<>> /\ result' = <<>>
    /\ UNCHANGED <<max_chars, uuid_issued, workbook, run_id, file_state,
                   total_llm_calls, artifacts, disk, all_xml_parts, batch_num,
                   parser_vars, chunk_vars>>

NextRuns == NextPipe \/ CallExtractAgain

\* extract called up to MaxRuns times on one instance
SpecRuns == InitRuns /\ [][NextRuns]_vars

\* the calls of _invoke_llm of the run in progress
CallsIssued == Len(llm_log)
CallsReturned == Cardinality({k \in 1..Len(llm_log) : ~llm_log[k].outcome.raises})

\* C23 (LLM call accounting): the total_llm_calls of the metrics of a
\* completed run is the number of LLM invocations issued during that run.
C23_ReportedCallsAreTheCallsIssued ==
    stage = "Done" => result[1].metrics[1].total_llm_calls = <<CallsIssued>>

\* C24 (runs are independent): the LLM call count a run reports is the one
\* a fresh instance reports for the same file and responses, whatever the
\* instance did before: the number of calls of this run that returned.
C24_SecondRunReportsItsOwnCalls ==
    stage = "Done" => result[1].metrics[1].total_llm_calls = <<CallsReturned>>

\* (The first call on an instance does report its own calls.)
FirstRunReportsItsOwnCalls ==
    (stage = "Done" /\ run_no = 1)
        => /\ result[1].metrics[1].total_llm_calls = <<CallsReturned>>
           /\ CallsReturned = CallsIssued

-----------------------------------------------------------------------------
(* The batch loop of _extract_questions, one LLM call at a time            *)

\* what the LLM call of a batch does
BatchOutcomes ==
    {Raises, Returns(<<>>), Returns(<<Open, QRow1, Close>>), Returns(<<QRow2>>)}

\* a sheet of one or two batches, a structure of one or two sheet records
InitExtract ==
    /\ pc = "start"
    /\ BatchIdle
    /\ \E max_row \in {4, 103} :
           workbook = Worksheet(HeaderQAO, DataCells, max_row, NoSparse)
    /\ \E a \in {None, NameA}, n \in {1, 2} :
           structure = [sheets |-> Take(
               <<SheetInfo(SheetNameS, 1, 2, ColumnsInfo(NameQ, a, None, None)),
                 SheetInfo(SheetNameS, 1, 2, ColumnsInfo(NameQ, None, NameO, None))>>, n)]
    /\ batches = <<>>

\* lines 464-468: the batches are made, the list of results is empty
ExtractQuestionsBegins ==
    /\ pc = "start"
    /\ batches' = ExtractWithContext(workbook, structure.sheets)
    /\ all_xml_parts' = <<>>
    /\ batch_num' = 0
    /\ pc' = "loop"
    /\ UNCHANGED <<metadata, max_chars, chunks, xml_q, uuid_issued, questions,
                   workbook, structure, pipe_vars, disk, run_no, parser_vars, chunk_vars>>

\* lines 470-483: the next batch's prompt is built and saved, and the call
\* of _invoke_llm is awaited
BatchCallIssued ==
    /\ pc = "loop"
    /\ batch_num < Len(batches)
    /\ batch_num' = batch_num + 1
    /\ artifacts' = artifacts \cup Written(intermediate_dir,
           {File("step3_extraction_batch_N_prompt.txt", batch_num + 1)})
    /\ pc' = "awaiting"
    /\ UNCHANGED <<metadata, max_chars, chunks, xml_q, uuid_issued, questions,
                   workbook, structure, batches, run_id, file_state, stage,
                   visited, total_llm_calls, llm_log, intermediate_dir, coverage,
                   xml_output, result, disk, run_no, all_xml_parts, parser_vars, chunk_vars>>

\* lines 484-505: the call returns, is counted, its sheet attributes are
\* rewritten and the result is appended
BatchCallReturns ==
    /\ pc = "awaiting"
    /\ \E o \in BatchOutcomes \ {Raises} :
           /\ llm_log' = Append(llm_log, LlmCall("Extraction", batch_num, o))
           /\ all_xml_parts' = AllXmlPartsAppend(all_xml_parts,
                  SubSheetName(o.text, batches[batch_num].sheet_name))
    /\ total_llm_calls' = total_llm_calls + 1
    /\ artifacts' = artifacts \cup Written(intermediate_dir,
           {File("step3_extraction_batch_N_response_raw.xml", batch_num),
            File("step3_question_extraction_batch_N.xml", batch_num)})
    /\ pc' = "loop"
    /\ UNCHANGED <<metadata, max_chars, chunks, xml_q, uuid_issued, questions,
                   workbook, structure, batches, run_id, file_state, stage,
                   visited, intermediate_dir, coverage, xml_output, result,
                   disk, run_no, batch_num, parser_vars, chunk_vars>>

\* line 484: the call raises and _extract_questions is left
BatchCallRaises ==
    /\ pc = "awaiting"
    /\ llm_log' = Append(llm_log, LlmCall("Extraction", batch_num, Raises))
    /\ pc' = "raised"
    /\ UNCHANGED <<metadata, max_chars, chunks, xml_q, uuid_issued, questions,
                   workbook, structure, batches, run_id, file_state, stage,
                   visited, total_llm_calls, intermediate_dir, artifacts,
                   coverage, xml_output, result, call_vars>>

\* lines 507-517: the loop is over, the parts are combined and returned
CombineBatches ==
    /\ pc = "loop"
    /\ batch_num = Len(batches)
    /\ xml_output' = CombinedXml(all_xml_parts)
    /\ artifacts' = artifacts \cup Written(intermediate_dir,
           {File("step3_question_extraction_combined.xml", 0)})
    /\ pc' = "done"
    /\ UNCHANGED <<metadata, max_chars, chunks, xml_q, uuid_issued, questions,
                   workbook, structure, batches, run_id, file_state, stage,
                   visited, total_llm_calls, llm_log, intermediate_dir, coverage,
                   result, call_vars>>

NextExtract ==
    \/ ExtractQuestionsBegins
    \/ BatchCallIssued
    \/ BatchCallReturns
    \/ BatchCallRaises
    \/ CombineBatches

SpecExtract == InitExtract /\ [][NextExtract]_vars

\* the calls that have returned, in the order in which they returned
CallReturned(call) == ~call.outcome.raises
ReturnedCalls == SelectSeq(llm_log, CallReturned)

\* batches in the order of the sheets of the structure, and within a sheet
\* by ascending start row
IsFirstOfSheet(batch) == batch.batch_num = 1
YieldsBatches(sheet_info) == SheetBatches(workbook, sheet_info) # <<>>
InBatchOrder ==
    /\ \A i \in 1..(Len(batches) - 1) :
           \/ batches[i + 1].batch_num = 1
           \/ /\ batches[i + 1].batch_num = batches[i].batch_num + 1
              /\ batches[i + 1].columns_info = batches[i].columns_info
              /\ batches[i + 1].data_start_row > batches[i].data_start_row
    /\ LET firsts == SelectSeq(batches, IsFirstOfSheet)
           sheets == SelectSeq(structure.sheets, YieldsBatches)
       IN  /\ Len(firsts) = Len(sheets)
           /\ \A k \in 1..Len(firsts) :
                  /\ firsts[k].sheet_name = sheets[k].sheet_name
                  /\ firsts[k].columns_info = sheets[k].columns

\* C21 (accumulation order): at every point of the extraction stage the
\* accumulated list is exactly the responses of the batches whose LLM call
\* has returned, in batch order.
C21_PartsAreTheResponses ==
    pc # "start" =>
        all_xml_parts = [k \in 1..Len(ReturnedCalls) |-> ReturnedCalls[k].outcome.text]

\* C21, amended: at every point of the extraction stage the accumulated list
\* holds, for each batch whose LLM call has returned and for no other, that
\* batch's response with every sheet attribute rewritten to the batch's
\* sheet name, in batch order; a call in flight or failed adds nothing.
C21_PartsAreTheRewrittenResponses ==
    pc # "start" =>
        /\ InBatchOrder
        /\ Len(all_xml_parts) = Len(ReturnedCalls)
        /\ \A k \in 1..Len(ReturnedCalls) :
               /\ ReturnedCalls[k].n = k
               /\ all_xml_parts[k] =
                      SubSheetName(ReturnedCalls[k].outcome.text, batches[k].sheet_name)
        /\ pc = "awaiting" => Len(all_xml_parts) = batch_num - 1
        /\ pc = "raised" => Len(all_xml_parts) = batch_num - 1
        /\ pc \in {"loop", "done"} => Len(all_xml_parts) = batch_num

\* two calls of a second sheet's batches have returned with different
\* responses, one of them rewritten, and a third call is in flight
C21_Witness ==
    /\ pc = "awaiting"
    /\ batch_num = 3
    /\ Len(structure.sheets) = 2
    /\ Len(all_xml_parts) = 2
    /\ all_xml_parts[1] # all_xml_parts[2]
    /\ all_xml_parts[2] # ReturnedCalls[2].outcome.text

-----------------------------------------------------------------------------
(* The deterministic parser: ExcelParser.extract_rows_by_columns and       *)
(* count_rows_in_columns on the sheet of an Excel workbook                 *)

\* ColumnMapping; end_row is NoInt for None
ColumnMapping(sheet_name, question_column, answer_column, type_column, start_row, end_row) ==
    [sheet_name |-> sheet_name, question_column |-> question_column,
     answer_column |-> answer_column, type_column |-> type_column,
     start_row |-> start_row, end_row |-> end_row]

\* f"Column_{idx + 1}"
ColumnPrefix == <<"C", "o", "l", "u", "m", "n", "_">>
ColumnName(idx) == ColumnPrefix \o IntToStr(idx + 1)

\* the name _extract_rows_from_excel gives the header cell at idx (0-based)
ExtractColName(cells, idx) ==
    IF cells[idx + 1] # None THEN cells[idx + 1] ELSE UnnamedName(idx)

\* the name _count_rows_in_excel gives the header cell at idx (0-based)
CountColName(cells, idx) ==
    IF cells[idx + 1] # None THEN cells[idx + 1] ELSE ColumnName(idx)

\* col_indices[role] after the loop over the header row: every match
\* overwrites the one before, so the last match stays; <<>> if there is none
LastColIndex(cells, name) ==
    LET at == {idx \in 0..(Len(cells) - 1) : ExtractColName(cells, idx) = name}
    IN  IF at = {} THEN NoInt ELSE <<SetMax(at)>>

\* col_indices as _extract_rows_from_excel builds it
ColIndices(cells, mapping) ==
    [question |-> LastColIndex(cells, mapping.question_column),
     answer |-> IF Truthy(mapping.answer_column)
                THEN LastColIndex(cells, mapping.answer_column) ELSE NoInt,
     type |-> IF Truthy(mapping.type_column)
              THEN LastColIndex(cells, mapping.type_column) ELSE NoInt]

\* q_col_idx of _count_rows_in_excel: the loop breaks at the first match
QColIdx(cells, mapping) ==
    LET at == {idx \in 0..(Len(cells) - 1) :
                   CountColName(cells, idx) = mapping.question_column}
    IN  IF at = {} THEN NoInt ELSE <<SetMin(at)>>

\* "mapping.end_row or ws.max_row"
EndRow(wb, mapping) ==
    IF mapping.end_row = NoInt \/ mapping.end_row = <<0>> THEN wb.max_row
    ELSE mapping.end_row[1]

\* row[i].value for i < len(row), None for a cell the row does not have
RowCellValue(wb, row_idx, col_idx) ==
    IF col_idx < Len(wb.row1) THEN CellValue(wb, row_idx, col_idx) ELSE None

\* text.split(sep) for a separator of one character
RECURSIVE SplitAcc(_, _, _, _)
SplitAcc(text, sep, current, acc) ==
    IF text = <<>> THEN Append(acc, current)
    ELSE IF Head(text) = sep THEN SplitAcc(Tail(text), sep, <<>>, Append(acc, current))
    ELSE SplitAcc(Tail(text), sep, Append(current, Head(text)), acc)
Split(text, sep) == SplitAcc(text, sep, <<>>, <<>>)

\* the answers of a row: None, or the stripped parts of the answer cell
AnswersOf(answer_text) ==
    LET parts == IF InSeq("|", answer_text) THEN Split(answer_text, "|")
                 ELSE IF InSeq("\n", answer_text) THEN Split(answer_text, "\n")
                 ELSE <<answer_text>>
    IN  [k \in 1..Len(parts) |-> Strip(parts[k])]

\* type_mapping
TypeMapping ==
    (<<"o","p","e","n">> :> "open_ended")
    @@ (<<"o","p","e","n","_","e","n","d","e","d">> :> "open_ended")
    @@ (<<"s","i","n","g","l","e">> :> "single_choice")
    @@ (<<"s","i","n","g","l","e","_","c","h","o","i","c","e">> :> "single_choice")
    @@ (<<"m","u","l","t","i","p","l","e">> :> "multiple_choice")
    @@ (<<"m","u","l","t","i","p","l","e","_","c","h","o","i","c","e">> :> "multiple_choice")
    @@ (<<"g","r","o","u","p","e","d">> :> "grouped_question")
    @@ (<<"g","r","o","u","p","e","d","_","q","u","e","s","t","i","o","n">> :> "grouped_question")
    @@ (<<"y","e","s","_","n","o">> :> "yes_no")
    @@ (<<"y","e","s","n","o">> :> "yes_no")

\* the question type of a row (lines 761-786)
QuestionTypeOf(has_type_col, type_value, answers) ==
    IF has_type_col
    THEN IF Truthy(type_value) /\ Strip(StrLower(type_value)) \in DOMAIN TypeMapping
         THEN TypeMapping[Strip(StrLower(type_value))]
         ELSE "open_ended"
    ELSE IF answers # None
    THEN IF Len(answers) = 2
            /\ \A k \in 1..2 : StrLower(answers[k]) \in {<<"y","e","s">>, <<"n","o">>}
         THEN "yes_no" ELSE "single_choice"
    ELSE "open_ended"

\* "cell.value and str(cell.value).strip() and str(cell.value).strip() != '-'"
\* (also "if not question_text or question_text == '-': continue")
IsQuestionText(value) ==
    /\ Truthy(value)
    /\ Strip(value) # <<>>
    /\ Strip(value) # <<"-">>

\* the ExtractedQuestion of a row
RowQuestion(wb, mapping, col_indices, row_idx) ==
    LET answer_value == IF col_indices.answer = NoInt THEN None
                        ELSE RowCellValue(wb, row_idx, col_indices.answer[1])
        answers == IF Truthy(answer_value) THEN AnswersOf(answer_value) ELSE None
        type_value == IF col_indices.type = NoInt THEN None
                      ELSE RowCellValue(wb, row_idx, col_indices.type[1])
    IN  [question_text |-> Strip(RowCellValue(wb, row_idx, col_indices.question[1])),
         question_type |-> QuestionTypeOf(col_indices.type # NoInt, type_value, answers),
         answers |-> answers,
         row_index |-> row_idx,
         sheet_name |-> mapping.sheet_name]

\* "for row_idx in range(start_row, end_row + 1)" of _extract_rows_from_excel
RECURSIVE ExtractRowLoop(_, _, _, _, _, _)
ExtractRowLoop(wb, mapping, col_indices, row_idx, end_row, acc) ==
    IF row_idx > end_row THEN acc
    ELSE IF ~IsQuestionText(RowCellValue(wb, row_idx, col_indices.question[1]))
    THEN ExtractRowLoop(wb, mapping, col_indices, row_idx + 1, end_row, acc)
    ELSE ExtractRowLoop(wb, mapping, col_indices, row_idx + 1, end_row,
                        Append(acc, RowQuestion(wb, mapping, col_indices, row_idx)))

\* one turn of "for mapping in column_mappings" of _extract_rows_from_excel
ExtractRowsOfMapping(wb, mapping) ==
    IF mapping.sheet_name # wb.sheet_name THEN <<>>
    ELSE LET col_indices == ColIndices(RowCells(wb, 1), mapping)
         IN  IF col_indices.question = NoInt THEN <<>>
             ELSE ExtractRowLoop(wb, mapping, col_indices, mapping.start_row,
                                 EndRow(wb, mapping), <<>>)

\* _extract_rows_from_excel
RECURSIVE ExtractRowsFromExcel(_, _)
ExtractRowsFromExcel(wb, mappings) ==
    IF mappings = <<>> THEN <<>>
    ELSE ExtractRowsOfMapping(wb, Head(mappings))
         \o ExtractRowsFromExcel(wb, Tail(mappings))

\* one turn of "for mapping in column_mappings" of _count_rows_in_excel
CountRowsOfMapping(wb, mapping) ==
    IF mapping.sheet_name # wb.sheet_name THEN 0
    ELSE LET q_col_idx == QColIdx(RowCells(wb, 1), mapping)
         IN  IF q_col_idx = NoInt THEN 0
             ELSE Cardinality({row_idx \in mapping.start_row..EndRow(wb, mapping) :
                      /\ q_col_idx[1] < Len(wb.row1)
                      /\ IsQuestionText(CellValue(wb, row_idx, q_col_idx[1]))})

\* _count_rows_in_excel
RECURSIVE CountRowsInExcel(_, _)
CountRowsInExcel(wb, mappings) ==
    IF mappings = <<>> THEN 0
    ELSE CountRowsOfMapping(wb, Head(mappings)) + CountRowsInExcel(wb, Tail(mappings))

\* cells of a second row: a dash, blanks, answers and a question type
CellDash == <<"-">>
CellBlank == <<" ", " ">>
CellYesNo == <<"Y", "e", "s", "|", " ", "n", "o">>
CellLines == <<"a", "\n", "b", "\n", "c">>
CellMultiple == <<"M", "u", "l", "t", "i", "p", "l", "e", " ">>
\* cells that begin or end with a newline
CellNewline == <<" ", "\n", " ">>
CellDashLine == <<"-", "\n">>
CellTextLine == <<"q", "\n">>
CellPipeLine == <<"a", "|", "\n", "b">>
CellYesNoLine == <<"y", "e", "s", "|", "n", "o", "\n">>
CellMultipleLine == <<"m", "u", "l", "t", "i", "p", "l", "e", "\n">>
ParserRowPool ==
    { DataCells,
      <<CellDash, CellYesNo, CellMultiple>>,
      <<CellNewline, CellYesNo, CellMultiple>>,
      <<CellDashLine, CellYesNo, CellMultiple>>,
      <<CellTextLine, CellPipeLine, CellMultipleLine>>,
      <<<<"w">>, CellYesNoLine, None>>,
      <<<<" ", "w", " ">>, CellLines, DataCells[2]>>,
      <<CellBlank, None, CellDash>>,
      <<None, CellBlank, <<"w">>>> }
ParserHeaderPool == {HeaderQAO, HeaderTitle, HeaderDup, HeaderEmpty, HeaderLiteral}

\* the file: a workbook of one sheet, nothing read yet
InitParser ==
    /\ pc = "start"
    /\ \E row1 \in ParserHeaderPool, row2 \in ParserRowPool, max_row \in {2, 3, 4},
          sparse \in {NoSparse, SparseRow3} :
           /\ \A r \in DOMAIN sparse : r <= max_row
           /\ workbook = Worksheet(row1, row2, max_row, sparse)
    /\ metadata = <<>> /\ max_chars = 0 /\ chunks = <<>>
    /\ xml_q = <<>> /\ uuid_issued = 0 /\ questions = <<>>
    /\ structure = NoStructure /\ batches = <<>>
    /\ run_id = None /\ file_state = "ok" /\ stage = "Idle" /\ visited = <<>>
    /\ total_llm_calls = 0 /\ llm_log = <<>> /\ intermediate_dir = <<>>
    /\ artifacts = {}
    /\ coverage = <<>> /\ xml_output = <<>> /\ result = <<>>
    /\ disk = <<>> /\ run_no = 1 /\ all_xml_parts = <<>> /\ batch_num = 0
    /\ column_mappings = <<>> /\ total_count = 0
    /\ chunk_num = 0 /\ all_sheets = <<>> /\ total_confidence = [num |-> 0, den |-> 1]

\* get_file_metadata is called, and the caller builds a mapping for the
\* sheet whose question column is one of the names of the metadata
GetMetadataAndMap ==
    /\ pc = "start"
    /\ metadata' = GetExcelMetadata(workbook)
    /\ \E md \in {GetExcelMetadata(workbook)} :
       \E q \in 1..Len(md[1].columns), a \in 0..Len(md[1].columns),
          t \in {0, Len(md[1].columns)},
          start_row \in 1..2, end_row \in {NoInt, <<0>>, <<2>>} :
           /\ end_row # NoInt => end_row[1] <= workbook.max_row
           /\ column_mappings' =
                  <<ColumnMapping(md[1].name, md[1].columns[q],
                                  IF a = 0 THEN None ELSE md[1].columns[a],
                                  IF t = 0 THEN None ELSE md[1].columns[t],
                                  start_row, end_row)>>
    /\ pc' = "mapped"
    /\ UNCHANGED <<max_chars, chunks, xml_q, uuid_issued, questions, workbook,
                   structure, batches, pipe_vars, disk, run_no, all_xml_parts,
                   batch_num, total_count, chunk_vars>>

\* extract_rows_by_columns(file_path, column_mappings)
ExtractRowsByColumns ==
    /\ pc = "mapped"
    /\ questions' = ExtractRowsFromExcel(workbook, column_mappings)
    /\ pc' = "extracted"
    /\ UNCHANGED <<metadata, max_chars, chunks, xml_q, uuid_issued, workbook,
                   structure, batches, pipe_vars, call_vars>>

\* count_rows_in_columns(file_path, column_mappings)
CountRowsInColumns ==
    /\ pc = "extracted"
    /\ total_count' = CountRowsInExcel(workbook, column_mappings)
    /\ pc' = "done"
    /\ UNCHANGED <<metadata, max_chars, chunks, xml_q, uuid_issued, questions,
                   workbook, structure, batches, pipe_vars, disk, run_no,
                   all_xml_parts, batch_num, column_mappings, chunk_vars>>

NextParser ==
    \/ GetMetadataAndMap
    \/ ExtractRowsByColumns
    \/ CountRowsInColumns

SpecParser == InitParser /\ [][NextParser]_vars

\* C30 (extraction and counting agree): for a mapping whose question column
\* name is taken from the column list of get_file_metadata, placeholder
\* names included, count_rows_in_columns returns the number of questions
\* extract_rows_by_columns returns.
C30_CountIsTheNumberOfQuestions ==
    pc = "done" => total_count = Len(questions)

\* (With a question column whose header cell is not empty and whose name no
\* other header cell bears, the two agree.)
NamedColumnOnce(cells, name) ==
    Cardinality({i \in 1..Len(cells) : cells[i] # None /\ HeaderNames(cells)[i] = name}) = 1
        /\ Cardinality({i \in 1..Len(cells) : HeaderNames(cells)[i] = name}) = 1
CountIsTheNumberOfQuestionsOfANamedColumn ==
    (pc = "done" /\ NamedColumnOnce(workbook.row1, column_mappings[1].question_column))
        => total_count = Len(questions)

\* a placeholder question column with questions in it, and a count of zero
PlaceholderColumnIsNotCounted ==
    /\ pc = "done"
    /\ column_mappings[1].question_column = UnnamedName(1)
    /\ workbook.row1[2] = None
    /\ Len(questions) >= 2
    /\ total_count = 0

====
